---- MODULE Spec2Model ----
(***************************************************************************)
(* Model of marjoram's detail::EitherImpl<Left_t, Right_t> (eitherImpl.hpp) *)
(* and of the tag queries of Either<A, B> (either.hpp).                     *)
(*                                                                         *)
(* A union object is a tag `side` plus a block of raw `storage` in which    *)
(* the code constructs and destroys Left_t / Right_t objects by hand.  The  *)
(* storage of a union is modelled by the object that was last placed in it: *)
(* its type `t`, its value `v`, and its lifetime state `st`:                *)
(*   "raw"   no object was ever constructed there,                          *)
(*   "live"  an object is alive (a moved-from object is alive too),         *)
(*   "dead"  the object's destructor has run (it has no value any more).    *)
(* Reading a raw/dead object, or running a destructor on one, is undefined  *)
(* behaviour in C++: the model records it in the trace of the operation and *)
(* lets the value read be any value.                                        *)
(***************************************************************************)
EXTENDS Integers, Sequences, FiniteSets, TLC

\* ---- bounds ----
NumUnions == 2
MaxVal == 1
MaxMade == 2
MaxRelease == 2
MaxInt == 4
MaxIncs == 2
NumLazy == 2
NumMaybe == 2
MaxCont == 3

U == 1..NumUnions
Vals == 0..MaxVal
\* the value of a default/empty/moved-from object (0, "", nullptr)
Empty == 0
Sides == {"left", "right"}
\* the three families of instantiations exercised by the tests:
\*   "copyable" Either<std::string, int>-like, copy constructors may throw
\*   "moveOnly" Either<std::unique_ptr<int>, ...>: no copies, a non-Empty
\*              value owns the resource of that number
\*   "counted"  EitherImpl<LeftOne, RightOne>: destructors bump dtorCount
TypeKinds == {"copyable", "moveOnly", "counted"}

VARIABLES
  typeKind,     \* which instantiation this run is about
  objs,         \* the union objects whose lifetime has begun and not ended
  side,         \* EitherImpl::side of each union ("none" outside lifetime)
  storage,      \* EitherImpl::storage of each union
  dtorCount,    \* LeftOne::dtorCount / RightOne::dtorCount
  made,         \* number of tagged constructions per side ("counted" runs)
  released,     \* how often each resource was deleted ("moveOnly" runs)
  created,      \* the resources handed to a union so far ("moveOnly" runs)
  moved,        \* the resources that changed union by a move ("moveOnly" runs)
  last,         \* the last operation: what ran, on what, and what it did
  calls,        \* the calls of caller-supplied functions the last operation made
  iter,         \* the range-for loop over an Either that is running, if any
  lz,           \* the Lazy<int> objects
  ll,           \* a Lazy<Lazy<int>>
  mb,           \* the Maybe<int> objects
  cma,          \* the container of Maybe<int> handed to sequence
  seqRet,       \* sequence's ret, once it has run
  eith,         \* an Either whose one side may hold an Either
  joined        \* what rightJoin / leftJoin / mirror returned, if one ran

\* the state of the wrappers built on the union
\* the state of the free functions and of the joins
algVars == <<cma, seqRet, eith, joined>>
extVars == <<calls, iter, lz, ll, mb, algVars>>

vars == <<typeKind, objs, side, storage, dtorCount, made, released, created,
          moved, last, extVars>>

\* no loop: `on` is whether a loop is running over union u, b and e are the
\* start_ flags of its begin()/end() iterators, seen the values its body got,
\* incs the number of operator++ it ran
NoIter == [on |-> FALSE, u |-> 1, b |-> FALSE, e |-> FALSE, seen |-> << >>,
           incs |-> 0]
InitExt ==
  /\ calls = << >>
  /\ iter = NoIter
  /\ lz = [i \in 1..NumLazy |->
            [in |-> FALSE, side |-> "left",
             fn |-> [k |-> "none", c |-> Empty, this |-> 1, g |-> "none",
                     steals |-> FALSE,
                     nested |-> [in |-> FALSE, side |-> "left", c |-> Empty,
                                 inner |-> [side |-> "left",
                                            val |-> Empty]]],
             val |-> Empty]]
  /\ ll = [in |-> FALSE, side |-> "left", c |-> Empty,
           inner |-> [side |-> "left", val |-> Empty]]
  /\ mb = [i \in 1..NumMaybe |-> [in |-> FALSE, init |-> FALSE, v |-> Empty]]
  /\ cma = << >>
  /\ seqRet = [in |-> FALSE, init |-> FALSE, v |-> Empty]
  /\ eith = [in |-> FALSE, ty |-> "none", side |-> "left",
             v |-> [k |-> "atom", side |-> "none", v |-> Empty]]
  /\ joined = [in |-> FALSE, ty |-> "none", side |-> "left",
               v |-> [k |-> "atom", side |-> "none", v |-> Empty]]

Raw == [t |-> "none", v |-> Empty, st |-> "raw"]
Alive(s) == s.st = "live"

\* the union u as the code sees it in memory sd/stg
Obj(sd, stg, u) == [side |-> sd[u], storage |-> stg[u]]

\* asLeft with its assertion compiled out
asLeftNoCheck(x) == [ok |-> TRUE, T |-> "left", ref |-> x.storage]

\* ---- accessors: assert(side == X); return *reinterpret_cast<X_t*>(&storage)
asLeft(x) == [ok |-> x.side = "left", T |-> "left", ref |-> x.storage]
asRight(x) == [ok |-> x.side = "right", T |-> "right", ref |-> x.storage]

\* ---- Either::isLeft / Either::isRight
isLeft(u) == side[u] = "left"
isRight(u) == side[u] = "right"

\* the events one accessor call contributes to an operation's trace
AssertEv(acc) ==
  IF acc.ok THEN << >>
  ELSE << [e |-> "assert", t |-> acc.T, obj |-> acc.ref.t, st |-> acc.ref.st,
           v |-> acc.ref.v] >>

\* acc.ref.~T(): the destructor of type T run on the object acc refers to
DestroyAt(acc) ==
  [storage |-> [t |-> acc.ref.t, v |-> Empty, st |-> "dead"],
   ev |-> AssertEv(acc) \o
          << [e |-> "dtor", t |-> acc.T, obj |-> acc.ref.t, st |-> acc.ref.st,
              v |-> acc.ref.v] >>]

\* cleanup with its two branches swapped
cleanupOtherSide(x) ==
  IF x.side = "left" THEN DestroyAt(asRight(x)) ELSE DestroyAt(asLeft(x))

\* EitherImpl::cleanup
cleanup(x) ==
  IF x.side = "left" THEN DestroyAt(asLeft(x)) ELSE DestroyAt(asRight(x))

\* the values a constructor may read through acc: the object's own value, or
\* anything when acc does not refer to a live object of the accessor's type
ReadVals(acc) ==
  IF Alive(acc.ref) /\ acc.ref.t = acc.T THEN {acc.ref.v} ELSE Vals

\* placement new that value-initialises instead of copying: new (&storage) T()
PlaceFromDefault(old, acc, g, throws) ==
  IF throws
    THEN [storage |-> old,
          ev |-> AssertEv(acc) \o
                 << [e |-> "throw", t |-> acc.T, obj |-> acc.ref.t,
                     st |-> acc.ref.st, v |-> acc.ref.v] >>]
    ELSE [storage |-> [t |-> acc.T, v |-> Empty, st |-> "live"],
          ev |-> AssertEv(acc) \o
                 << [e |-> "ctor", t |-> acc.T, obj |-> acc.ref.t,
                     st |-> acc.ref.st, v |-> Empty] >>]

\* new (&storage) T(acc): copy/move-construct a T from the object acc refers
\* to.  g, one of ReadVals(acc), is the value the constructor reads: any value
\* when that object is not a live T (undefined behaviour); throws says that
\* T's constructor throws.
PlaceFrom(old, acc, g, throws) ==
  IF throws
    THEN [storage |-> old,
          ev |-> AssertEv(acc) \o
                 << [e |-> "throw", t |-> acc.T, obj |-> acc.ref.t,
                     st |-> acc.ref.st, v |-> acc.ref.v] >>]
    ELSE [storage |-> [t |-> acc.T, v |-> g, st |-> "live"],
          ev |-> AssertEv(acc) \o
                 << [e |-> "ctor", t |-> acc.T, obj |-> acc.ref.t,
                     st |-> acc.ref.st, v |-> g] >>]

\* what T's move constructor leaves in its source
MovedFromVals(v) == IF typeKind = "moveOnly" THEN {Empty} ELSE {v, Empty}
\* a move that also ends the lifetime of its source
MovedFromDestroyed(s, mv) ==
  IF Alive(s) THEN [s EXCEPT !.v = Empty, !.st = "dead"] ELSE s
\* a move that copies: the source keeps its value and stays as it was
MovedFromKeeps(s, mv) == s
MovedFrom(s, mv) == IF Alive(s) THEN [s EXCEPT !.v = mv] ELSE s

\* ---- bookkeeping derived from the trace of an operation ----
RECURSIVE CountDtor(_, _)
CountDtor(tr, T) ==
  IF tr = << >> THEN 0
  ELSE (IF Head(tr).e = "dtor" /\ Head(tr).t = T THEN 1 ELSE 0)
       + CountDtor(Tail(tr), T)

RECURSIVE CountRelease(_, _)
CountRelease(tr, r) ==
  IF tr = << >> THEN 0
  ELSE (IF Head(tr).e = "dtor" /\ Head(tr).v = r THEN 1 ELSE 0)
       + CountRelease(Tail(tr), r)

\* ~LeftOne() { dtorCount++; } and ~RightOne() { dtorCount++; }
BumpDtorCount(tr) ==
  IF typeKind = "counted"
    THEN [T \in Sides |-> dtorCount[T] + CountDtor(tr, T)]
    ELSE dtorCount

\* ~unique_ptr(): deletes the resource it holds, if any
Release(tr) ==
  IF typeKind = "moveOnly"
    THEN [r \in Vals \ {Empty} |-> released[r] + CountRelease(tr, r)]
    ELSE released

\* what `last` keeps of an event: the kind, the type constructed/destroyed,
\* the type and the lifetime state of the object read/destroyed, the value
\* constructed
Note(ev) == [e |-> ev.e, t |-> ev.t, obj |-> ev.obj, st |-> ev.st,
             v |-> IF ev.e = "ctor" THEN ev.v ELSE Empty]
Notes(tr) == [i \in 1..Len(tr) |-> Note(tr[i])]

\* the union u as a caller sees it: whether it exists, its tag, its storage
Snap(u) == [in |-> u \in objs, side |-> side[u], storage |-> storage[u]]

\* the common tail of every operation: install the new memory, run the
\* counters of the destructors that fired, and remember what happened
Finish(op, dst, src, ok, objs2, side2, storage2, tr) ==
  /\ objs' = objs2
  /\ side' = side2
  /\ storage' = storage2
  /\ dtorCount' = BumpDtorCount(tr)
  /\ released' = Release(tr)
  /\ \A r \in Vals \ {Empty} : released'[r] <= MaxRelease
  /\ last' = [op |-> op, dst |-> dst, src |-> src, ok |-> ok,
              trace |-> Notes(tr), pre |-> Snap(src), ret |-> {}]
  /\ calls' = << >>
  /\ UNCHANGED <<typeKind, iter, lz, ll, mb, algVars>>

\* ---- EitherImpl(LeftSide, args...) / EitherImpl(RightSide, args...) ----
\* v is the value the forwarded arguments build; throws: T's constructor
\* throws, so the union's lifetime never begins.
TaggedCtor(op, u, T, v, throws) ==
  /\ u \notin objs
  /\ throws => typeKind = "copyable"
  /\ typeKind = "moveOnly" /\ v # Empty => v \notin created
  /\ typeKind = "counted" => made[T] < MaxMade
  /\ LET ev == [e |-> IF throws THEN "throw" ELSE "ctor", t |-> T,
                obj |-> "args", st |-> "args", v |-> v]
     IN IF throws
          THEN Finish(op, u, u, FALSE, objs, side, storage, <<ev>>)
          ELSE Finish(op, u, u, TRUE, objs \cup {u},
                      [side EXCEPT ![u] = T],
                      [storage EXCEPT ![u] = [t |-> T, v |-> v, st |-> "live"]],
                      <<ev>>)
  /\ made' = IF typeKind = "counted" /\ ~throws
               THEN [made EXCEPT ![T] = @ + 1] ELSE made
  /\ created' = IF typeKind = "moveOnly" /\ v # Empty
                  THEN created \cup {v} ELSE created
  /\ UNCHANGED moved

EitherImplLeft(u, v, throws) == TaggedCtor("ctorLeft", u, "left", v, throws)
\* the Right constructor with the Left constructor's initialiser
EitherImplRightTagsLeft(u, v, throws) ==
  TaggedCtor("ctorRight", u, "left", v, throws)
EitherImplRight(u, v, throws) ==
  TaggedCtor("ctorRight", u, "right", v, throws)

\* ---- ~EitherImpl() { cleanup(); } ----
Dtor(u) ==
  /\ u \in objs
  /\ LET c == cleanup(Obj(side, storage, u))
     IN Finish("dtor", u, u, TRUE, objs \ {u},
               [side EXCEPT ![u] = "none"],
               [storage EXCEPT ![u] = Raw], c.ev)
  /\ UNCHANGED <<made, created, moved>>

\* an assignment/constructor that forgets the tag
SetSideKeeps(sd, dst, src) == sd
\* side(rhs.side) in the copy/move constructors, side = rhs.side in the
\* assignment operators
SetSide(sd, dst, src) == [sd EXCEPT ![dst] = sd[src]]

\* rhs.asLeft() or rhs.asRight(), chosen by `if (side == left)` on the tag T
\* of the union under construction/assignment
Select(T, rhs) == IF T = "left" THEN asLeft(rhs) ELSE asRight(rhs)

\* ---- EitherImpl(const EitherImpl& rhs) : side(rhs.side) ----
CopyCtor(dst, src, g, throws) ==
  /\ dst \notin objs
  /\ src \in objs
  /\ typeKind # "moveOnly"
  /\ throws => typeKind = "copyable"
  /\ LET side1 == SetSide(side, dst, src)
         acc == Select(side1[dst], Obj(side1, storage, src))
         p == PlaceFrom(storage[dst], acc, g, throws)
     IN /\ g \in (IF throws THEN {Empty} ELSE ReadVals(acc))
        /\ IF throws
             THEN Finish("copyCtor", dst, src, FALSE, objs, side, storage,
                         p.ev)
             ELSE Finish("copyCtor", dst, src, TRUE, objs \cup {dst}, side1,
                         [storage EXCEPT ![dst] = p.storage], p.ev)
  /\ UNCHANGED <<made, created, moved>>

\* the resources that have changed union: g moves from src to dst
Carried(dst, src, g) ==
  IF typeKind = "moveOnly" /\ dst # src /\ g # Empty
    THEN moved \cup {g} ELSE moved

\* ---- EitherImpl(EitherImpl&& rhs) noexcept : side(rhs.side) ----
MoveCtor(dst, src, g, mv) ==
  /\ dst \notin objs
  /\ src \in objs
  /\ LET side1 == SetSide(side, dst, src)
         acc == Select(side1[dst], Obj(side1, storage, src))
         p == PlaceFrom(storage[dst], acc, g, FALSE)
         stg1 == [storage EXCEPT ![src] = MovedFrom(@, mv)]
     IN /\ g \in ReadVals(acc)
        /\ mv \in MovedFromVals(storage[src].v)
        /\ Finish("moveCtor", dst, src, TRUE, objs \cup {dst}, side1,
                  [stg1 EXCEPT ![dst] = p.storage], p.ev)
  /\ moved' = Carried(dst, src, g)
  /\ UNCHANGED <<made, created>>

\* ---- EitherImpl& operator=(const EitherImpl& rhs) ----
CopyAssign(dst, src, g, throws) ==
  /\ dst \in objs
  /\ src \in objs
  /\ typeKind # "moveOnly"
  /\ throws => typeKind = "copyable"
  /\ LET c == cleanup(Obj(side, storage, dst))
         stg1 == [storage EXCEPT ![dst] = c.storage]
         side1 == SetSide(side, dst, src)
         acc == Select(side1[dst], Obj(side1, stg1, src))
         p == PlaceFrom(stg1[dst], acc, g, throws)
     IN /\ g \in (IF throws THEN {Empty} ELSE ReadVals(acc))
        /\ Finish("copyAssign", dst, src, ~throws, objs, side1,
                  [stg1 EXCEPT ![dst] = p.storage], c.ev \o p.ev)
  /\ UNCHANGED <<made, created, moved>>

\* ---- EitherImpl& operator=(EitherImpl&& rhs) noexcept ----
MoveAssign(dst, src, g, mv) ==
  /\ dst \in objs
  /\ src \in objs
  /\ LET c == cleanup(Obj(side, storage, dst))
         stg1 == [storage EXCEPT ![dst] = c.storage]
         side1 == SetSide(side, dst, src)
         acc == Select(side1[dst], Obj(side1, stg1, src))
         p == PlaceFrom(stg1[dst], acc, g, FALSE)
         stg2 == [stg1 EXCEPT ![src] = MovedFrom(@, mv)]
     IN /\ g \in ReadVals(acc)
        /\ mv \in MovedFromVals(stg1[src].v)
        /\ Finish("moveAssign", dst, src, TRUE, objs, side1,
                  [stg2 EXCEPT ![dst] = p.storage], c.ev \o p.ev)
  /\ moved' = Carried(dst, src, g)
  /\ UNCHANGED <<made, created>>

\* ---- a caller's u.asLeft() / u.asRight() ----
\* out is the set of values the caller may get: the stored value when the
\* assertion holds; otherwise none (the assertion aborts) or, with
\* assertions compiled out, whatever the storage reads as through the other
\* type, which may be any value.
Outcomes(acc) ==
  IF acc.ok THEN {{acc.ref.v}} ELSE {{}, Vals}

Access(op, u, acc, out) ==
  /\ u \in objs
  /\ out \in Outcomes(acc)
  /\ last' = [op |-> op, dst |-> u, src |-> u, ok |-> acc.ok,
              trace |-> Notes(AssertEv(acc)), pre |-> Snap(u), ret |-> out]
  /\ calls' = << >>
  /\ UNCHANGED <<typeKind, objs, side, storage, dtorCount, made, released,
                 created, moved, iter, lz, ll, mb, algVars>>

AsLeft(u, out) == Access("asLeft", u, asLeft(Obj(side, storage, u)), out)
AsRight(u, out) == Access("asRight", u, asRight(Obj(side, storage, u)), out)

Init ==
  /\ typeKind = "copyable"
  /\ objs = {}
  /\ side = [u \in U |-> "none"]
  /\ storage = [u \in U |-> Raw]
  /\ dtorCount = [T \in Sides |-> 0]
  /\ made = [T \in Sides |-> 0]
  /\ released = [r \in Vals \ {Empty} |-> 0]
  /\ created = {}
  /\ moved = {}
  /\ InitExt
  /\ last = [op |-> "init", dst |-> 1, src |-> 1, ok |-> TRUE,
             trace |-> << >>, pre |-> Snap(1), ret |-> {}]

Next ==
  \/ \E u \in U, v \in Vals, throws \in BOOLEAN : EitherImplLeft(u, v, throws)
  \/ \E u \in U, v \in Vals, throws \in BOOLEAN : EitherImplRight(u, v, throws)
  \/ \E u \in U : Dtor(u)
  \/ \E d \in U, s \in U, g \in Vals, throws \in BOOLEAN :
       CopyCtor(d, s, g, throws)
  \/ \E d \in U, s \in U, g \in Vals, mv \in Vals : MoveCtor(d, s, g, mv)
  \/ \E d \in U, s \in U, g \in Vals, throws \in BOOLEAN :
       CopyAssign(d, s, g, throws)
  \/ \E d \in U, s \in U, g \in Vals, mv \in Vals : MoveAssign(d, s, g, mv)
  \/ \E u \in U, out \in SUBSET Vals : AsLeft(u, out)
  \/ \E u \in U, out \in SUBSET Vals : AsRight(u, out)

Spec == Init /\ [][Next]_vars

\* ---- the run of TEST(EitherImpl, dtors): LeftOne / RightOne unions are
\* only constructed and destroyed ----
InitDtors ==
  /\ typeKind = "counted"
  /\ objs = {}
  /\ side = [u \in U |-> "none"]
  /\ storage = [u \in U |-> Raw]
  /\ dtorCount = [T \in Sides |-> 0]
  /\ made = [T \in Sides |-> 0]
  /\ released = [r \in Vals \ {Empty} |-> 0]
  /\ created = {}
  /\ moved = {}
  /\ InitExt
  /\ last = [op |-> "init", dst |-> 1, src |-> 1, ok |-> TRUE,
             trace |-> << >>, pre |-> Snap(1), ret |-> {}]

NextDtors ==
  \/ \E u \in U, v \in Vals : EitherImplLeft(u, v, FALSE)
  \/ \E u \in U, v \in Vals : EitherImplRight(u, v, FALSE)
  \/ \E u \in U : Dtor(u)

SpecDtors == InitDtors /\ [][NextDtors]_vars

\* ---- the runs of TEST(EitherImpl, uniqueptr) / TEST(Either, unique_ptr):
\* unions of a move-only std::unique_ptr<int>, moved along chains from one
\* union to another; nothing can be copied.  (x = std::move(x) is no link
\* of a chain; Spec runs it.) ----
InitMove ==
  /\ typeKind = "moveOnly"
  /\ objs = {}
  /\ side = [u \in U |-> "none"]
  /\ storage = [u \in U |-> Raw]
  /\ dtorCount = [T \in Sides |-> 0]
  /\ made = [T \in Sides |-> 0]
  /\ released = [r \in Vals \ {Empty} |-> 0]
  /\ created = {}
  /\ moved = {}
  /\ InitExt
  /\ last = [op |-> "init", dst |-> 1, src |-> 1, ok |-> TRUE,
             trace |-> << >>, pre |-> Snap(1), ret |-> {}]

NextMove ==
  \/ \E u \in U, v \in Vals : EitherImplLeft(u, v, FALSE)
  \/ \E u \in U, v \in Vals : EitherImplRight(u, v, FALSE)
  \/ \E u \in U : Dtor(u)
  \/ \E d \in U, s \in U, g \in Vals, mv \in Vals : MoveCtor(d, s, g, mv)
  \/ \E d \in U : \E s \in U \ {d}, g \in Vals, mv \in Vals :
       MoveAssign(d, s, g, mv)

SpecMove == InitMove /\ [][NextMove]_vars

(***************************************************************************)
(* Either<A, B> (either.hpp): map, flatMap, fold and the right-biased      *)
(* iterators.  The caller-supplied function objects are drawn from small   *)
(* sets of functions on the values; each call is recorded in `calls`.      *)
(***************************************************************************)
\* the int / std::string values of these runs
Ints == 0..MaxInt

\* functions B -> C handed to map / fold: x * x (msqInts) and x + 1, on the
\* bounded integers
Fns == {"sq", "inc"}
Apply(f, x) ==
  IF f = "sq" THEN (x * x) % (MaxInt + 1) ELSE (x + 1) % (MaxInt + 1)

\* functions B -> Either<A, C> handed to flatMap: one that always answers on
\* the Right, one that answers an odd argument with a Left
FnsE == {"incE", "evenE"}
ApplyE(f, x) ==
  IF f = "incE" \/ x % 2 = 0
    THEN [side |-> "right", v |-> Apply("inc", x)]
    ELSE [side |-> "left", v |-> x]

\* one call f(arg) made through the parameter named role
Call(role, f, arg) == [role |-> role, f |-> f, arg |-> arg]

\* the common tail of map / flatMap / fold: the unions after the call, the
\* calls made, the value returned to the caller (fold)
Return(op, dst, src, objs2, side2, storage2, tr, cl, ret) ==
  /\ objs' = objs2
  /\ side' = side2
  /\ storage' = storage2
  /\ calls' = cl
  /\ last' = [op |-> op, dst |-> dst, src |-> src, ok |-> TRUE,
              trace |-> Notes(tr), pre |-> Snap(src), ret |-> ret]
  /\ UNCHANGED <<typeKind, dtorCount, made, released, created, moved, iter,
                 lz, ll, mb, algVars>>

\* Either<A, C>(Left, asLeft()): the branch map and flatMap share when the
\* receiver is not Right
PropagateLeft(op, dst, src, g) ==
  LET acc == asLeft(Obj(side, storage, src))
      p == PlaceFrom(storage[dst], acc, g, FALSE)
  IN /\ g \in ReadVals(acc)
     /\ Return(op, dst, src, objs \cup {dst}, [side EXCEPT ![dst] = "left"],
               [storage EXCEPT ![dst] = p.storage], p.ev, << >>, {})

\* a const overload that moves from its receiver as the non-const one does
AfterCallMoves(s, mv, isConst) == MovedFrom(s, mv)
\* what the receiver's Right value is after fb got it: untouched through
\* const B&, moved from through std::move(asRight())
AfterCall(s, mv, isConst) == IF isConst THEN s ELSE MovedFrom(s, mv)

\* a map that wraps its argument without calling fb
mapIdentity(f, x) == x
\* the value map wraps on the Right: fb(asRight())
mapResult(f, x) == Apply(f, x)

\* ---- Either::map(Fb fb) and Either::map(Fb fb) const ----
\* dst is the Either returned, g the value fb reads, mv what a non-const
\* receiver's value is left as
Map(dst, src, fb, g, mv, isConst) ==
  /\ dst \notin objs
  /\ src \in objs
  /\ typeKind = "copyable"
  /\ IF isRight(src)
       THEN LET acc == asRight(Obj(side, storage, src))
                res == mapResult(fb, g)
            IN /\ g \in ReadVals(acc)
               /\ mv \in (IF isConst THEN {Empty}
                                     ELSE MovedFromVals(storage[src].v))
               /\ Return(IF isConst THEN "mapConst" ELSE "map", dst, src,
                         objs \cup {dst}, [side EXCEPT ![dst] = "right"],
                         [storage EXCEPT
                            ![src] = AfterCall(@, mv, isConst),
                            ![dst] = [t |-> "right", v |-> res,
                                      st |-> "live"]],
                         AssertEv(acc) \o
                           << [e |-> "ctor", t |-> "right", obj |-> "args",
                               st |-> "args", v |-> res] >>,
                         << Call("fb", fb, g) >>, {})
       ELSE /\ mv = Empty
            /\ PropagateLeft(IF isConst THEN "mapConst" ELSE "map", dst, src,
                             g)

\* a flatMap that wraps fb's answer on the Right whatever side it is on
flatMapResultRight(f, x) == [side |-> "right", v |-> ApplyE(f, x).v]
\* the Either flatMap returns for a Right receiver: fb(asRight()) itself
flatMapResult(f, x) == ApplyE(f, x)

\* ---- Either::flatMap(Fb fb) and Either::flatMap(Fb fb) const ----
FlatMap(dst, src, fb, g, mv, isConst) ==
  /\ dst \notin objs
  /\ src \in objs
  /\ typeKind = "copyable"
  /\ IF isRight(src)
       THEN LET acc == asRight(Obj(side, storage, src))
                res == flatMapResult(fb, g)
            IN /\ g \in ReadVals(acc)
               /\ mv \in (IF isConst THEN {Empty}
                                     ELSE MovedFromVals(storage[src].v))
               /\ Return(IF isConst THEN "flatMapConst" ELSE "flatMap", dst,
                         src, objs \cup {dst},
                         [side EXCEPT ![dst] = res.side],
                         [storage EXCEPT
                            ![src] = AfterCall(@, mv, isConst),
                            ![dst] = [t |-> res.side, v |-> res.v,
                                      st |-> "live"]],
                         AssertEv(acc) \o
                           << [e |-> "ctor", t |-> res.side, obj |-> "args",
                               st |-> "args", v |-> res.v] >>,
                         << Call("fb", fb, g) >>, {})
       ELSE /\ mv = Empty
            /\ PropagateLeft(IF isConst THEN "flatMapConst" ELSE "flatMap",
                             dst, src, g)

\* a fold that tests the tag the wrong way round
foldSwapped(x, fa, fb, g) ==
  IF x.side = "left"
    THEN [acc |-> asRight(x), cl |-> Call("fb", fb, g), ret |-> Apply(fb, g)]
    ELSE [acc |-> asLeft(x), cl |-> Call("fa", fa, g), ret |-> Apply(fa, g)]
\* if (impl::side == detail::right) return fb(asRight()); return fa(asLeft());
\* g is the value the function called reads through the accessor
fold(x, fa, fb, g) ==
  IF x.side = "right"
    THEN [acc |-> asRight(x), cl |-> Call("fb", fb, g), ret |-> Apply(fb, g)]
    ELSE [acc |-> asLeft(x), cl |-> Call("fa", fa, g), ret |-> Apply(fa, g)]

\* ---- Either::fold(Fa fa, Fb fb), const and non-const ----
Fold(src, fa, fb, g, isConst) ==
  /\ src \in objs
  /\ typeKind = "copyable"
  /\ LET r == fold(Obj(side, storage, src), fa, fb, g)
     IN /\ g \in ReadVals(r.acc)
        /\ Return(IF isConst THEN "foldConst" ELSE "fold", src, src, objs,
                  side, storage, AssertEv(r.acc), << r.cl >>, {r.ret})

\* EitherIterator(Mb, start) : start_(start && Mb_.isRight())
EitherIterator(u, start) == start /\ isRight(u)

\* what a step of the loop leaves in `last`; ret is what the loop's body
\* has been run on so far
LoopDid(op, u, seen, tr) ==
  /\ last' = [op |-> op, dst |-> u, src |-> u, ok |-> TRUE,
              trace |-> Notes(tr), pre |-> Snap(u), ret |-> {seen}]
  /\ calls' = << >>
  /\ UNCHANGED <<typeKind, objs, side, storage, dtorCount, made, released,
                 created, moved, lz, ll, mb, algVars>>

\* ---- for (B& b : e): auto it = e.begin(), end = e.end() ----
ForBegin(u) ==
  /\ u \in objs
  /\ ~iter.on
  /\ iter' = [on |-> TRUE, u |-> u, b |-> EitherIterator(u, TRUE),
              e |-> EitherIterator(u, FALSE), seen |-> << >>, incs |-> 0]
  /\ LoopDid("forBegin", u, << >>, << >>)

\* operator++ that leaves the iterator where it is
IncrementStays(b) == b
\* EitherIterator::operator++: start_ = false
Increment(b) == FALSE

\* ---- it != end holds: B& b = *it; body; ++it ----
ForStep(g) ==
  /\ iter.on
  /\ iter.b # iter.e
  /\ iter.incs < MaxIncs
  /\ g \in ReadVals(asRight(Obj(side, storage, iter.u)))
  /\ iter' = [iter EXCEPT !.seen = Append(@, g), !.b = Increment(@),
                          !.incs = @ + 1]
  /\ LoopDid("forStep", iter.u, Append(iter.seen, g),
             AssertEv(asRight(Obj(side, storage, iter.u))))

\* ---- it != end fails: the loop is over and its iterators are gone ----
ForEnd ==
  /\ iter.on
  /\ ~(iter.b # iter.e)
  /\ iter' = NoIter
  /\ LoopDid("forEnd", iter.u, iter.seen, << >>)

\* ---- runs of Either<std::string, int>-like values as in TEST(Either, map),
\* flatMap, fold, For: values are built, transformed, iterated and dropped;
\* a range-for loop runs to its end before anything else happens ----
NextEither ==
  \/ ~iter.on /\ \E u \in U, v \in Ints : EitherImplLeft(u, v, FALSE)
  \/ ~iter.on /\ \E u \in U, v \in Ints : EitherImplRight(u, v, FALSE)
  \/ ~iter.on /\ \E u \in U : Dtor(u)
  \/ ~iter.on /\ \E d \in U, s \in U, fb \in Fns, g \in Ints, mv \in Ints,
                    c \in BOOLEAN : Map(d, s, fb, g, mv, c)
  \/ ~iter.on /\ \E d \in U, s \in U, fb \in FnsE, g \in Ints, mv \in Ints,
                    c \in BOOLEAN : FlatMap(d, s, fb, g, mv, c)
  \/ ~iter.on /\ \E s \in U, fa \in Fns, fb \in Fns, g \in Ints,
                    c \in BOOLEAN : Fold(s, fa, fb, g, c)
  \/ \E u \in U : ForBegin(u)
  \/ \E g \in Ints : ForStep(g)
  \/ ForEnd

SpecEither == Init /\ [][NextEither]_vars

(***************************************************************************)
(* The remaining operations of Either<A, B> that read the held value:      *)
(* exists, getOrElse, mirror, toMaybe, contains, recover and merge.  Each  *)
(* tests the tag and then calls the accessor of one side.                  *)
(***************************************************************************)
\* predicates handed to exists
Preds == {"isEven", "isEmpty"}
ApplyP(p, x) == IF p = "isEven" THEN x % 2 = 0 ELSE x = Empty

\* an operation that reads the receiver through acc and returns ret
ReadOp(op, src, acc, g, cl, ret) ==
  /\ src \in objs
  /\ typeKind = "copyable"
  /\ g \in ReadVals(acc)
  /\ Return(op, src, src, objs, side, storage, AssertEv(acc), cl, ret)

\* the accessor an operation of the form
\*   if (isRight()) { ... asRight() ... } ... asLeft() ...
\* calls on x
bySideSwapped(x) == IF x.side = "right" THEN asLeft(x) ELSE asRight(x)
bySide(x) == IF x.side = "right" THEN asRight(x) ELSE asLeft(x)

\* ---- Either::exists(pred): fold([](const auto&) { return false; }, pred)
Exists(src, pred, g) ==
  LET acc == bySide(Obj(side, storage, src))
  IN ReadOp("exists", src, acc, g,
            IF acc.T = "right" THEN << Call("pred", pred, g) >> ELSE << >>,
            {IF acc.T = "right" THEN ApplyP(pred, g) ELSE FALSE})

\* ---- Either::getOrElse(dflt): isRight() ? asRight() : dflt ----
GetOrElse(src, dflt, g) ==
  /\ src \in objs
  /\ typeKind = "copyable"
  /\ IF isRight(src)
       THEN ReadOp("getOrElse", src, asRight(Obj(side, storage, src)), g,
                   << >>, {g})
       ELSE /\ g = dflt
            /\ Return("getOrElse", src, src, objs, side, storage, << >>,
                      << >>, {dflt})

\* ---- Either::contains(c): isRight() ? asRight() == c : false ----
Contains(src, c, g) ==
  /\ src \in objs
  /\ typeKind = "copyable"
  /\ IF isRight(src)
       THEN ReadOp("contains", src, asRight(Obj(side, storage, src)), g,
                   << >>, {g = c})
       ELSE /\ g = c
            /\ Return("contains", src, src, objs, side, storage, << >>,
                      << >>, {FALSE})

\* ---- Either::toMaybe(): isRight() ? Just(asRight()) : Nothing ----
\* the Maybe returned is given as the set of the values it holds
ToMaybe(src, g) ==
  /\ src \in objs
  /\ typeKind = "copyable"
  /\ IF isRight(src)
       THEN ReadOp("toMaybe", src, asRight(Obj(side, storage, src)), g,
                   << >>, {g})
       ELSE /\ g = Empty
            /\ Return("toMaybe", src, src, objs, side, storage, << >>,
                      << >>, {})

\* ---- Either::recover(fa): isRight() ? asRight() : fa(asLeft()) ----
Recover(src, fa, g) ==
  LET acc == bySide(Obj(side, storage, src))
  IN ReadOp("recover", src, acc, g,
            IF acc.T = "left" THEN << Call("fa", fa, g) >> ELSE << >>,
            {IF acc.T = "left" THEN Apply(fa, g) ELSE g})

\* ---- Either::merge(): isRight() ? asRight() : asLeft() ----
Merge(src, g) ==
  ReadOp("merge", src, bySide(Obj(side, storage, src)), g, << >>, {g})

\* ---- Either::mirror() at the level of the unions: dst is the Either
\* returned, built on the other side from the value read ----
MirrorOp(dst, src, g) ==
  /\ dst \notin objs
  /\ src \in objs
  /\ typeKind = "copyable"
  /\ LET acc == bySide(Obj(side, storage, src))
         to == IF acc.T = "right" THEN "left" ELSE "right"
     IN /\ g \in ReadVals(acc)
        /\ Return("mirror", dst, src, objs \cup {dst},
                  [side EXCEPT ![dst] = to],
                  [storage EXCEPT ![dst] = [t |-> to, v |-> g, st |-> "live"]],
                  AssertEv(acc) \o
                    << [e |-> "ctor", t |-> to, obj |-> "args", st |-> "args",
                        v |-> g] >>,
                  << >>, {})

\* ---- every operation of the union and of Either, on values that may have
\* been left without a live object by a failed copy assignment.  The values
\* stay within Vals; the function objects are one of each kind; the
\* caller's own asLeft() / asRight() calls and self-assignment are the
\* matter of Spec ----
NextOps ==
  \/ ~iter.on /\ \E u \in U, v \in Vals, throws \in BOOLEAN :
                    EitherImplLeft(u, v, throws)
  \/ ~iter.on /\ \E u \in U, v \in Vals, throws \in BOOLEAN :
                    EitherImplRight(u, v, throws)
  \/ ~iter.on /\ \E u \in U : Dtor(u)
  \/ ~iter.on /\ \E d \in U, s \in U, g \in Vals, throws \in BOOLEAN :
                    CopyCtor(d, s, g, throws)
  \/ ~iter.on /\ \E d \in U, s \in U, g \in Vals, mv \in Vals :
                    MoveCtor(d, s, g, mv)
  \/ ~iter.on /\ \E d \in U : \E s \in U \ {d}, g \in Vals,
                    throws \in BOOLEAN : CopyAssign(d, s, g, throws)
  \/ ~iter.on /\ \E d \in U : \E s \in U \ {d}, g \in Vals, mv \in Vals :
                    MoveAssign(d, s, g, mv)
  \/ ~iter.on /\ \E d \in U, s \in U, g \in Vals, mv \in Vals,
                    c \in BOOLEAN :
                    /\ mapResult("sq", g) \in Vals
                    /\ Map(d, s, "sq", g, mv, c)
  \/ ~iter.on /\ \E d \in U, s \in U, g \in Vals, mv \in Vals,
                    c \in BOOLEAN :
                    /\ flatMapResult("evenE", g).v \in Vals
                    /\ FlatMap(d, s, "evenE", g, mv, c)
  \/ ~iter.on /\ \E s \in U, g \in Vals, c \in BOOLEAN :
                    Fold(s, "inc", "sq", g, c)
  \/ ~iter.on /\ \E s \in U, g \in Vals : Exists(s, "isEven", g)
  \/ ~iter.on /\ \E s \in U, g \in Vals : GetOrElse(s, Empty, g)
  \/ ~iter.on /\ \E s \in U, g \in Vals : Contains(s, Empty, g)
  \/ ~iter.on /\ \E s \in U, g \in Vals : ToMaybe(s, g)
  \/ ~iter.on /\ \E s \in U, g \in Vals : Recover(s, "inc", g)
  \/ ~iter.on /\ \E s \in U, g \in Vals : Merge(s, g)
  \/ ~iter.on /\ \E d \in U, s \in U, g \in Vals : MirrorOp(d, s, g)
  \/ \E u \in U : ForBegin(u)
  \/ \E g \in Vals : ForStep(g)
  \/ ForEnd

SpecOps == Init /\ [][NextOps]_vars

(***************************************************************************)
(* Lazy<A> (lazy.hpp): an Either<std::function<A()>, A> that get() turns   *)
(* from its Left (the function) into its Right (the value) on first use.   *)
(* lz holds the Lazy<int> objects, numbered in the order they are built;   *)
(* ll is a Lazy<Lazy<int>>.  Every run of a stored function and every call *)
(* of a caller-supplied g is recorded in `calls`.                          *)
(***************************************************************************)
LZ == 1..NumLazy

\* a Lazy<Lazy<int>> as a value: the outer computation yields an unevaluated
\* Lazy<int> whose computation yields c
NoInner == [side |-> "left", val |-> Empty]
NoNested == [in |-> FALSE, side |-> "left", c |-> Empty, inner |-> NoInner]

\* the std::function a Lazy holds: k says which lambda it is
\*   "f"        a caller's computation returning c
\*   "map"      [g, this]() { return g(get()); }
\*   "flatMap"  [g, this]() { return g(get()).get(); }
\*   "flatten"  [LLa]() { return LLa.get().get(); }
NoFn == [k |-> "none", c |-> Empty, this |-> 1, g |-> "none",
         steals |-> FALSE, nested |-> NoNested]
NoLazy == [in |-> FALSE, side |-> "left", fn |-> NoFn, val |-> Empty]

\* Lazy::isEvaluated: impl.isRight()
isEvaluated(l) == l.side = "right"

\* one run of the function stored in Lazy `of`, or one call g(arg) it makes
LazyCall(role, f, arg, of) == [role |-> role, f |-> f, arg |-> arg, of |-> of]

\* a get() that computes and returns the value without storing it
EvaluatedForgets(l, v) == l
\* impl = storage_t(Right, value): the function is destroyed, the value kept
Evaluated(l, v) == [l EXCEPT !.side = "right", !.fn = NoFn, !.val = v]

\* LLa.get().get() on the nested Lazy n: what n becomes, the value, the runs
NestedGetGet(n) ==
  LET n1 == IF n.side = "left" THEN [n EXCEPT !.side = "right"] ELSE n
      n2 == [n1 EXCEPT !.inner = [side |-> "right", val |-> n.c]]
  IN [n |-> IF n1.inner.side = "left" THEN n2 ELSE n1,
      val |-> IF n1.inner.side = "left" THEN n.c ELSE n1.inner.val,
      calls |-> (IF n.side = "left"
                   THEN << LazyCall("run", "outer", Empty, 0) >> ELSE << >>)
                \o (IF n1.inner.side = "left"
                      THEN << LazyCall("run", "inner", Empty, 0) >>
                      ELSE << >>)]

\* a map that yields the receiver's value itself
lazyMapKeeps(g, x) == x
\* g(get()): the value a mapped Lazy computes from the receiver's value x
lazyMapValue(g, x) == Apply(g, x)

\* a composition whose g empties the receiver's value in every overload
passedToGAlways(L, fn) == [L EXCEPT ![fn.this].val = Empty]
\* g(std::move(get())) in the non-const map and flatMap: a g that takes the
\* A&& it is handed leaves the receiver's stored value moved-from
passedToG(L, fn) ==
  IF fn.steals THEN [L EXCEPT ![fn.this].val = Empty] ELSE L

\* a get() that stores a default value when the computation throws
FailedStoresDefault(L, i) == [L EXCEPT ![i] = Evaluated(@, Empty)]
\* impl.asLeft()() throws: the assignment to impl is never reached
Failed(L, i) == L

\* Lazy::get on lz-memory L: if (impl.isLeft()) impl = storage_t(Right,
\* impl.asLeft()()); return impl.asRight().  fail: the computation "f" that
\* runs throws.  fuel bounds the nesting of get() calls: a function that
\* reaches get() on its own Lazy never returns, which `loops` reports.
RECURSIVE LazyGet(_, _, _, _)
LazyGet(L, i, fuel, fail) ==
  LET fn == L[i].fn
      done(LL, v, cl) ==
        [L |-> [LL EXCEPT ![i] = Evaluated(@, v)], val |-> v, calls |-> cl,
         ok |-> TRUE, loops |-> FALSE]
      run == LazyCall("run", fn.k, Empty, i)
  IN IF isEvaluated(L[i])
       THEN [L |-> L, val |-> L[i].val, calls |-> << >>, ok |-> TRUE,
             loops |-> FALSE]
     ELSE IF fuel = 0 \/ (fn.k = "f" /\ fail)
       THEN [L |-> Failed(L, i), val |-> Empty, calls |-> << run >>,
             ok |-> FALSE, loops |-> fuel = 0]
     ELSE IF fn.k = "f"
       THEN done(L, fn.c, << run >>)
     ELSE IF fn.k = "flatten"
       THEN LET r == NestedGetGet(fn.nested)
            IN done(L, r.val, << run >> \o r.calls)
     ELSE LET r == LazyGet(L, fn.this, fuel - 1, fail)
              L1 == passedToG(r.L, fn)
              gs == IF fn.k = "map"
                      THEN << LazyCall("g", fn.g, r.val, i) >>
                      ELSE << LazyCall("g", fn.g, r.val, i),
                              LazyCall("runMade", fn.g, r.val, i) >>
          IN IF r.ok
               THEN done(L1, lazyMapValue(fn.g, r.val),
                         << run >> \o r.calls \o gs)
               ELSE [L |-> Failed(r.L, i), val |-> Empty,
                     calls |-> << run >> \o r.calls, ok |-> FALSE,
                     loops |-> r.loops]

\* the slot the next Lazy<int> is built in
Fresh(i) == ~lz[i].in /\ \A j \in LZ : j < i => lz[j].in

\* what a Lazy operation leaves in `last` and `calls`
LazyDid(op, dst, src, ok, cl, ret) ==
  /\ last' = [op |-> op, dst |-> dst, src |-> src, ok |-> ok,
              trace |-> << >>, pre |-> [lz |-> lz, ll |-> ll], ret |-> ret]
  /\ calls' = cl
  /\ UNCHANGED <<typeKind, objs, side, storage, dtorCount, made, released,
                 created, moved, iter, mb, algVars>>

\* ---- explicit Lazy(std::function<A()> f) : impl(Left, f) ----
LazyFromFn(i, c) ==
  /\ Fresh(i)
  /\ lz' = [lz EXCEPT ![i] = [in |-> TRUE, side |-> "left",
                              fn |-> [NoFn EXCEPT !.k = "f", !.c = c],
                              val |-> Empty]]
  /\ LazyDid("lazyFromFn", i, i, TRUE, << >>, {})
  /\ UNCHANGED ll

\* ---- explicit Lazy(const A& a) : impl(Right, a) ----
LazyFromValue(i, v) ==
  /\ Fresh(i)
  /\ lz' = [lz EXCEPT ![i] = [in |-> TRUE, side |-> "right", fn |-> NoFn,
                              val |-> v]]
  /\ LazyDid("lazyFromValue", i, i, TRUE, << >>, {})
  /\ UNCHANGED ll

\* ---- A& get() / const A& get() const ----
LazyGetOp(i, fail) ==
  /\ lz[i].in
  /\ LET r == LazyGet(lz, i, NumLazy, fail)
     IN /\ ~r.loops
        /\ fail => ~r.ok
        /\ lz' = r.L
        /\ LazyDid("lazyGet", i, i, r.ok, r.calls,
                   IF r.ok THEN {r.val} ELSE {})
  /\ UNCHANGED ll

\* ---- for (const A& a : La): begin(), *it calls La_.get(), ++it ----
LazyFor(i, fail) ==
  /\ lz[i].in
  /\ LET r == LazyGet(lz, i, NumLazy, fail)
     IN /\ ~r.loops
        /\ fail => ~r.ok
        /\ lz' = r.L
        /\ LazyDid("lazyFor", i, i, r.ok, r.calls,
                   IF r.ok THEN {<< r.val >>} ELSE {})
  /\ UNCHANGED ll

\* ---- Lazy& operator=(const A& a) / operator=(A&& a):
\* impl = storage_t(Right, a) ----
LazyAssignValue(i, v) ==
  /\ lz[i].in
  /\ lz' = [lz EXCEPT ![i] = Evaluated(@, v)]
  /\ LazyDid("lazyAssignValue", i, i, TRUE, << >>, {})
  /\ UNCHANGED ll

\* a copy assignment that leaves an evaluated target as it is
lazyCopyKeepsEvaluated(dst, src) == IF isEvaluated(dst) THEN dst ELSE src
\* Lazy& operator=(const Lazy&) = default: impl = rhs.impl, the function or
\* the value rhs holds
lazyCopy(dst, src) == src

\* ---- Lazy& operator=(const Lazy&) = default, on two Lazy objects ----
LazyCopyAssign(i, src) ==
  /\ lz[i].in
  /\ lz[src].in
  /\ i # src
  /\ lz' = [lz EXCEPT ![i] = lazyCopy(lz[i], lz[src])]
  /\ LazyDid("lazyCopyAssign", i, src, TRUE, << >>, {})
  /\ UNCHANGED ll

\* ---- Lazy::map(G g), const and non-const; Lazy::flatMap likewise ----
\* steals: g takes the value out of the A&& the non-const overload hands it
LazyCompose(op, k, i, src, g, steals) ==
  /\ Fresh(i)
  /\ lz[src].in
  /\ lz' = [lz EXCEPT ![i] = [in |-> TRUE, side |-> "left",
                              fn |-> [NoFn EXCEPT !.k = k, !.this = src,
                                                  !.g = g, !.steals = steals],
                              val |-> Empty]]
  /\ LazyDid(op, i, src, TRUE, << >>, {})
  /\ UNCHANGED ll

LazyMap(i, src, g, steals) == LazyCompose("lazyMap", "map", i, src, g, steals)
LazyFlatMap(i, src, g, steals) ==
  LazyCompose("lazyFlatMap", "flatMap", i, src, g, steals)

\* ---- a Lazy<Lazy<int>> built from a function, as in TEST(Lazy, flatten) ----
NestedFromFn(c) ==
  /\ ~ll.in
  /\ ll' = [NoNested EXCEPT !.in = TRUE, !.c = c]
  /\ LazyDid("nestedFromFn", 1, 1, TRUE, << >>, {})
  /\ UNCHANGED lz

\* ---- ll.get(): the outer computation runs, the inner Lazy is stored ----
NestedGet ==
  /\ ll.in
  /\ ll.side = "left"
  /\ ll' = [ll EXCEPT !.side = "right"]
  /\ LazyDid("nestedGet", 1, 1, TRUE,
             << LazyCall("run", "outer", Empty, 0) >>, {})
  /\ UNCHANGED lz

\* ---- ll.get().get(): both computations run, both values are stored ----
NestedGetBoth ==
  /\ ll.in
  /\ ll.inner.side = "left"
  /\ ll' = NestedGetGet(ll).n
  /\ LazyDid("nestedGetBoth", 1, 1, TRUE, NestedGetGet(ll).calls,
             {NestedGetGet(ll).val})
  /\ UNCHANGED lz

\* a Flatten that evaluates the outer Lazy while capturing it
CaptureEvaluates(n) == [n EXCEPT !.side = "right"]
\* [LLa] / [nested = std::move(LLa)]: the lambda holds its own copy of LLa
Capture(n) == n

\* ---- Flatten(const Lazy<Lazy<A>>&) / Flatten(Lazy<Lazy<A>>&&) ----
Flatten(i) ==
  /\ Fresh(i)
  /\ ll.in
  /\ lz' = [lz EXCEPT ![i] = [in |-> TRUE, side |-> "left",
                              fn |-> [NoFn EXCEPT !.k = "flatten",
                                                  !.nested = Capture(ll)],
                              val |-> Empty]]
  /\ LazyDid("flatten", i, i, TRUE, << >>, {})
  /\ UNCHANGED ll

InitLazy ==
  /\ typeKind = "copyable"
  /\ objs = {}
  /\ side = [u \in U |-> "none"]
  /\ storage = [u \in U |-> Raw]
  /\ dtorCount = [T \in Sides |-> 0]
  /\ made = [T \in Sides |-> 0]
  /\ released = [r \in Vals \ {Empty} |-> 0]
  /\ created = {}
  /\ moved = {}
  /\ InitExt
  /\ last = [op |-> "init", dst |-> 1, src |-> 1, ok |-> TRUE,
             trace |-> << >>, pre |-> [lz |-> lz, ll |-> ll], ret |-> {}]

NextLazy ==
  \/ \E i \in LZ, c \in Vals : LazyFromFn(i, c)
  \/ \E i \in LZ, v \in Vals : LazyFromValue(i, v)
  \/ \E i \in LZ, fail \in BOOLEAN : LazyGetOp(i, fail)
  \/ \E i \in LZ, s \in LZ, g \in Fns, st \in BOOLEAN : LazyMap(i, s, g, st)
  \/ \E i \in LZ, s \in LZ, g \in Fns, st \in BOOLEAN :
       LazyFlatMap(i, s, g, st)
  \/ \E c \in Vals : NestedFromFn(c)
  \/ NestedGet
  \/ NestedGetBoth
  \/ \E i \in LZ : Flatten(i)

SpecLazy == InitLazy /\ [][NextLazy]_vars

\* Lazy<int> objects under construction, get, iteration, composition and
\* the two assignments
NextLazyAssign ==
  \/ \E i \in LZ, c \in Vals : LazyFromFn(i, c)
  \/ \E i \in LZ, v \in Vals : LazyFromValue(i, v)
  \/ \E i \in LZ, fail \in BOOLEAN : LazyGetOp(i, fail)
  \/ \E i \in LZ, fail \in BOOLEAN : LazyFor(i, fail)
  \/ \E i \in LZ, v \in Vals : LazyAssignValue(i, v)
  \/ \E i \in LZ, s \in LZ : LazyCopyAssign(i, s)
  \/ \E i \in LZ, s \in LZ, g \in Fns, st \in BOOLEAN : LazyMap(i, s, g, st)
  \/ \E i \in LZ, s \in LZ, g \in Fns, st \in BOOLEAN :
       LazyFlatMap(i, s, g, st)

SpecLazyAssign == InitLazy /\ [][NextLazyAssign]_vars

(***************************************************************************)
(* Maybe<A> (maybe.hpp): a boost::optional<A> impl_ with map and flatMap.  *)
(* A Maybe is modelled by whether impl_ is initialized and by the value it *)
(* holds.  Its copy and move operations are the defaulted ones, that is    *)
(* boost::optional's: a move leaves the source optional initialized,       *)
(* holding a moved-from value.                                             *)
(***************************************************************************)
MB == 1..NumMaybe
NoMaybe == [in |-> FALSE, init |-> FALSE, v |-> Empty]

\* Maybe() / Maybe(Nothing_t): impl_()     Maybe(const A& a): impl_(a)
NothingOf == [in |-> TRUE, init |-> FALSE, v |-> Empty]
JustOf(v) == [in |-> TRUE, init |-> TRUE, v |-> v]

\* Maybe::isJust: impl_.is_initialized()     Maybe::isNothing: !isJust()
isJust(m) == m.init
isNothing(m) == ~isJust(m)

\* functions A -> Maybe<B> handed to flatMap: one that always answers Just,
\* one that answers an odd argument with Nothing
FnsM == {"incM", "evenM"}
ApplyM(f, x) ==
  IF f = "incM" \/ x % 2 = 0 THEN JustOf(Apply("inc", x)) ELSE NothingOf

\* the overloads of map / flatMap: const&, & and &&
Overloads == {"constRef", "ref", "rvalue"}

\* what a Maybe operation leaves in `last` and `calls`; pre is the receiver
\* or source as it was
MaybeDid(op, dst, src, cl) ==
  /\ last' = [op |-> op, dst |-> dst, src |-> src, ok |-> TRUE,
              trace |-> << >>, pre |-> mb[src], ret |-> {}]
  /\ calls' = cl
  /\ UNCHANGED <<typeKind, objs, side, storage, dtorCount, made, released,
                 created, moved, iter, lz, ll, algVars>>

\* ---- Maybe() / Maybe(Nothing_t) ----
MaybeNothing(i) ==
  /\ ~mb[i].in
  /\ mb' = [mb EXCEPT ![i] = NothingOf]
  /\ MaybeDid("maybeNothing", i, i, << >>)

\* ---- Maybe(const A& a) / Maybe(A&& a) / Just(a) ----
MaybeJust(i, v) ==
  /\ ~mb[i].in
  /\ mb' = [mb EXCEPT ![i] = JustOf(v)]
  /\ MaybeDid("maybeJust", i, i, << >>)

\* ---- ~Maybe() ----
MaybeDtor(i) ==
  /\ mb[i].in
  /\ mb' = [mb EXCEPT ![i] = NoMaybe]
  /\ MaybeDid("maybeDtor", i, i, << >>)

\* the receiver after f got its value: moved from through the && overload
AfterMaybeCall(m, mv, ov) == IF ov = "rvalue" THEN [m EXCEPT !.v = mv] ELSE m

\* a map that answers Just of the default value for Nothing
maybeMapOfNothing == JustOf(Empty)
\* return Nothing;
maybeOfNothing == NothingOf

\* ---- Maybe::map(F f) const& / & / && ----
MaybeMap(i, src, f, mv, ov) ==
  /\ ~mb[i].in
  /\ mb[src].in
  /\ IF isJust(mb[src])
       THEN /\ mv \in (IF ov = "rvalue" THEN MovedFromVals(mb[src].v)
                                        ELSE {Empty})
            /\ mb' = [mb EXCEPT ![src] = AfterMaybeCall(@, mv, ov),
                                ![i] = JustOf(Apply(f, mb[src].v))]
            /\ MaybeDid("maybeMap", i, src, << Call("f", f, mb[src].v) >>)
       ELSE /\ mv = Empty
            /\ mb' = [mb EXCEPT ![i] = maybeOfNothing]
            /\ MaybeDid("maybeMap", i, src, << >>)

\* ---- Maybe::flatMap(F f) const& / & / && ----
MaybeFlatMap(i, src, f, mv, ov) ==
  /\ ~mb[i].in
  /\ mb[src].in
  /\ IF isJust(mb[src])
       THEN /\ mv \in (IF ov = "rvalue" THEN MovedFromVals(mb[src].v)
                                        ELSE {Empty})
            /\ mb' = [mb EXCEPT ![src] = AfterMaybeCall(@, mv, ov),
                                ![i] = ApplyM(f, mb[src].v)]
            /\ MaybeDid("maybeFlatMap", i, src,
                        << Call("f", f, mb[src].v) >>)
       ELSE /\ mv = Empty
            /\ mb' = [mb EXCEPT ![i] = maybeOfNothing]
            /\ MaybeDid("maybeFlatMap", i, src, << >>)

\* boost::optional(optional&& rhs) on rhs: rhs stays initialized if it was,
\* its value moved from
OptionalMovedFrom(m, mv) == IF m.init THEN [m EXCEPT !.v = mv] ELSE m

\* ---- Maybe(Maybe<A>&& Ma) = default ----
MaybeMoveCtor(i, src, mv) ==
  /\ ~mb[i].in
  /\ mb[src].in
  /\ mv \in (IF mb[src].init THEN MovedFromVals(mb[src].v) ELSE {Empty})
  /\ mb' = [mb EXCEPT ![src] = OptionalMovedFrom(@, mv), ![i] = mb[src]]
  /\ MaybeDid("maybeMoveCtor", i, src, << >>)

\* ---- Maybe<A>& operator=(Maybe<A>&& Ma) = default ----
MaybeMoveAssign(i, src, mv) ==
  /\ mb[i].in
  /\ mb[src].in
  /\ i # src
  /\ mv \in (IF mb[src].init THEN MovedFromVals(mb[src].v) ELSE {Empty})
  /\ mb' = [mb EXCEPT ![src] = OptionalMovedFrom(@, mv), ![i] = mb[src]]
  /\ MaybeDid("maybeMoveAssign", i, src, << >>)

InitMaybe ==
  /\ typeKind = "copyable"
  /\ objs = {}
  /\ side = [u \in U |-> "none"]
  /\ storage = [u \in U |-> Raw]
  /\ dtorCount = [T \in Sides |-> 0]
  /\ made = [T \in Sides |-> 0]
  /\ released = [r \in Vals \ {Empty} |-> 0]
  /\ created = {}
  /\ moved = {}
  /\ InitExt
  /\ last = [op |-> "init", dst |-> 1, src |-> 1, ok |-> TRUE,
             trace |-> << >>, pre |-> mb[1], ret |-> {}]

NextMaybe ==
  \/ \E i \in MB : MaybeNothing(i)
  \/ \E i \in MB, v \in Ints : MaybeJust(i, v)
  \/ \E i \in MB : MaybeDtor(i)
  \/ \E i \in MB, s \in MB, f \in Fns, mv \in Ints, ov \in Overloads :
       MaybeMap(i, s, f, mv, ov)
  \/ \E i \in MB, s \in MB, f \in FnsM, mv \in Ints, ov \in Overloads :
       MaybeFlatMap(i, s, f, mv, ov)
  \/ \E i \in MB, s \in MB, mv \in Ints : MaybeMoveCtor(i, s, mv)
  \/ \E i \in MB, s \in MB, mv \in Ints : MaybeMoveAssign(i, s, mv)

SpecMaybe == InitMaybe /\ [][NextMaybe]_vars

(***************************************************************************)
(* The free monadic functions map2 and sequence (monad.hpp), over Maybe.   *)
(* A std::forward_list<A> is the sequence of its elements, front first.    *)
(***************************************************************************)
\* la.push_front(a); return la;
pushFront(la, a) == << a >> \o la

\* map2(ma, mb, f): ma.flatMap(a -> mb.map(b -> f(a, b))) with the f of
\* sequence.  The const& overloads of flatMap and map answer Nothing for a
\* Nothing receiver and do not call their function.
map2IgnoresNothing(ma, m) ==
  IF isJust(ma) /\ isJust(m) THEN JustOf(pushFront(ma.v, m.v)) ELSE ma
map2(ma, m) ==
  IF isJust(ma)
    THEN (IF isJust(m) THEN JustOf(pushFront(ma.v, m.v)) ELSE maybeOfNothing)
    ELSE maybeOfNothing

\* sequence(cma): ret starts as Just of the empty list; for each ma of cma,
\* in order, ret = map2(ret, ma, push_front)
RECURSIVE sequenceFrom(_, _, _)
sequenceFrom(c, i, r) ==
  IF i > Len(c) THEN r ELSE sequenceFrom(c, i + 1, map2(r, c[i]))
sequence(c) == sequenceFrom(c, 1, JustOf(<< >>))

\* the elements a container may hold
MaybeVals == {NothingOf} \cup {JustOf(v) : v \in Ints}

\* what an operation on the container leaves in `last`
SeqDid(op, i) ==
  /\ last' = [op |-> op, dst |-> i, src |-> i, ok |-> TRUE, trace |-> << >>,
              pre |-> cma, ret |-> {}]
  /\ calls' = << >>
  /\ UNCHANGED <<typeKind, objs, side, storage, dtorCount, made, released,
                 created, moved, iter, lz, ll, mb, eith, joined>>

\* ---- Mi.push_back(m): std::vector<Maybe<int>> grows by one element ----
ContPush(m) ==
  /\ ~seqRet.in
  /\ Len(cma) < MaxCont
  /\ cma' = Append(cma, m)
  /\ UNCHANGED seqRet
  /\ SeqDid("push", Len(cma) + 1)

\* ---- Mi[i] = m ----
ContSet(i, m) ==
  /\ ~seqRet.in
  /\ i \in 1..Len(cma)
  /\ cma' = [cma EXCEPT ![i] = m]
  /\ UNCHANGED seqRet
  /\ SeqDid("set", i)

\* ---- auto somes = sequence(Mi) ----
Sequence ==
  /\ ~seqRet.in
  /\ seqRet' = sequence(cma)
  /\ UNCHANGED cma
  /\ SeqDid("sequence", 1)

\* ---- the result of sequence goes out of scope ----
SeqRetDtor ==
  /\ seqRet.in
  /\ seqRet' = NoMaybe
  /\ UNCHANGED cma
  /\ SeqDid("seqRetDtor", 1)

NextSeq ==
  \/ \E m \in MaybeVals : ContPush(m)
  \/ \E i \in 1..MaxCont, m \in MaybeVals : ContSet(i, m)
  \/ Sequence
  \/ SeqRetDtor

SpecSeq == InitMaybe /\ [][NextSeq]_vars

(***************************************************************************)
(* Either::mirror, Either::rightJoin and Either::leftJoin (either.hpp), on *)
(* Either values: the side and the value held.  A held value is a plain    *)
(* value (k = "atom") or itself an Either of plain values (k = "either").  *)
(***************************************************************************)
Atom(n) == [k |-> "atom", side |-> "none", v |-> n]
\* an Either of plain values as the value held by another Either, and back
Held(e) == [k |-> "either", side |-> e.side, v |-> e.v.v]
Unheld(x) == [side |-> x.side, v |-> Atom(x.v)]
EitherOf(sd, x) == [side |-> sd, v |-> x]

NoEither == [in |-> FALSE, ty |-> "none", side |-> "left", v |-> Atom(Empty)]
\* an Either object: its static type, its side and its value
EithObj(ty, e) == [in |-> TRUE, ty |-> ty, side |-> e.side, v |-> e.v]
Value(o) == [side |-> o.side, v |-> o.v]

\* a mirror that copies the Either as it is
mirrorKeepsSide(e) == e
\* Either::mirror: isRight() ? Either<B, A>(Left, asRight())
\*                           : Either<B, A>(Right, asLeft())
mirror(e) ==
  IF e.side = "right" THEN EitherOf("left", e.v) ELSE EitherOf("right", e.v)

\* [](const auto& inner) { return inner; }
returnInner(inner) == Unheld(inner)
\* [](const auto& inner) { return inner.mirror(); }
returnInnerMirror(inner) == mirror(Unheld(inner))

\* the call fb(inner) of one of the two lambdas the joins pass to flatMap
ApplyJoinFn(fb, inner) ==
  IF fb = "returnInner" THEN returnInner(inner) ELSE returnInnerMirror(inner)

\* Either::flatMap(Fb fb) const: isRight() ? fb(asRight())
\*                                         : Either<A, C>(Left, asLeft())
flatMapConst(e, fb) ==
  IF e.side = "right" THEN ApplyJoinFn(fb, e.v) ELSE EitherOf("left", e.v)

\* a rightJoin that answers every Right receiver with a Right
rightJoinTagsRight(e) ==
  IF e.side = "right" THEN EitherOf("right", Atom(e.v.v))
                      ELSE EitherOf("left", e.v)
\* Either::rightJoin: flatMap([](const auto& inner) { return inner; })
rightJoin(e) == flatMapConst(e, "returnInner")

\* Either::leftJoin:
\*   mirror().flatMap([](const auto& inner) { return inner.mirror(); })
\*           .mirror()
leftJoin(e) == mirror(flatMapConst(mirror(e), "returnInnerMirror"))

\* the Either values of each of the three shapes of type
FlatEithers == {EitherOf(sd, Atom(n)) : sd \in Sides, n \in Ints}
RightNested ==
  {EitherOf("left", Atom(n)) : n \in Ints} \cup
  {EitherOf("right", Held(e)) : e \in FlatEithers}
LeftNested ==
  {EitherOf("right", Atom(n)) : n \in Ints} \cup
  {EitherOf("left", Held(e)) : e \in FlatEithers}
EitherTypes == {"flat", "rightNested", "leftNested"}
EithersOf(ty) ==
  CASE ty = "flat" -> FlatEithers
    [] ty = "rightNested" -> RightNested
    [] ty = "leftNested" -> LeftNested

\* what an operation on eith leaves in `last`
JoinDid(op) ==
  /\ last' = [op |-> op, dst |-> 1, src |-> 1, ok |-> TRUE, trace |-> << >>,
              pre |-> eith, ret |-> {}]
  /\ calls' = << >>
  /\ UNCHANGED <<typeKind, objs, side, storage, dtorCount, made, released,
                 created, moved, iter, lz, ll, mb, cma, seqRet>>

\* ---- Either<...> Eiis(Left, a) / Eiis(Right, inner) ----
EithMake(ty, e) ==
  /\ ~eith.in
  /\ e \in EithersOf(ty)
  /\ eith' = EithObj(ty, e)
  /\ UNCHANGED joined
  /\ JoinDid("eithMake")

\* ---- ~Either() of the receiver, once its result is gone ----
EithDtor ==
  /\ eith.in
  /\ ~joined.in
  /\ eith' = NoEither
  /\ UNCHANGED joined
  /\ JoinDid("eithDtor")

\* ---- auto Eis = Esi.mirror() ----
Mirror ==
  /\ eith.in
  /\ ~joined.in
  /\ joined' = EithObj("mirrored", mirror(Value(eith)))
  /\ UNCHANGED eith
  /\ JoinDid("mirror")

\* ---- auto joined = Eiis.rightJoin() ----
RightJoin ==
  /\ eith.in
  /\ eith.ty = "rightNested"
  /\ ~joined.in
  /\ joined' = EithObj("flat", rightJoin(Value(eith)))
  /\ UNCHANGED eith
  /\ JoinDid("rightJoin")

\* ---- auto joined = Esii.leftJoin() ----
LeftJoin ==
  /\ eith.in
  /\ eith.ty = "leftNested"
  /\ ~joined.in
  /\ joined' = EithObj("flat", leftJoin(Value(eith)))
  /\ UNCHANGED eith
  /\ JoinDid("leftJoin")

\* ---- the result leaves scope ----
JoinedDtor ==
  /\ joined.in
  /\ joined' = NoEither
  /\ UNCHANGED eith
  /\ JoinDid("joinedDtor")

NextJoin ==
  \/ \E ty \in EitherTypes : \E e \in EithersOf(ty) : EithMake(ty, e)
  \/ EithDtor
  \/ Mirror
  \/ RightJoin
  \/ LeftJoin
  \/ JoinedDtor

SpecJoin == InitMaybe /\ [][NextJoin]_vars

(***************************************************************************)
(* Properties of the union: EitherImpl construction, copy, move,           *)
(* assignment, destruction and accessors.  last.pre is the source union    *)
(* (for a constructor from arguments, a destructor or an accessor: the     *)
(* union itself) as it was before the operation last.op ran.  In the step  *)
(* properties the unprimed variables are the unions before the operation   *)
(* named by last', the primed ones the unions after it.                    *)
(***************************************************************************)
AssignOps == {"copyAssign", "moveAssign"}
MoveOps == {"moveCtor", "moveAssign"}
ThrowingOps == {"ctorLeft", "ctorRight", "copyCtor", "copyAssign"}

\* a live object of type T holding v
LiveObj(T, v) == [t |-> T, v |-> v, st |-> "live"]

\* the operation read an object outside its lifetime
ReadsDestroyed(tr) ==
  \E i \in 1..Len(tr) :
    tr[i].e \in {"ctor", "throw"} /\ tr[i].st \in {"dead", "raw"}

\* the operation ran a destructor on storage holding no live object
DestroysDestroyed(tr) ==
  \E i \in 1..Len(tr) : tr[i].e = "dtor" /\ tr[i].st \in {"dead", "raw"}

\* C1: every union in existence holds exactly one live value and that value
\* is on the side named by its tag; no union is observable without a live
\* value or with a tag naming a side that holds none.
C1_OneLiveValueOnTaggedSide ==
  \A u \in objs :
    /\ side[u] \in Sides
    /\ Alive(storage[u])
    /\ storage[u].t = side[u]

\* C2: a union built with the Left selector is tagged left (isLeft, not
\* isRight) and holds the Left value built from the arguments; with the Right
\* selector it is tagged right and holds the Right value; isLeft and isRight
\* never agree on one union.
C2_TaggedCtorSide ==
  /\ \A u \in objs : isLeft(u) # isRight(u)
  /\ (last.op = "ctorLeft" /\ last.ok) =>
       /\ last.dst \in objs
       /\ isLeft(last.dst) /\ ~isRight(last.dst)
       /\ storage[last.dst] = LiveObj("left", last.trace[1].v)
  /\ (last.op = "ctorRight" /\ last.ok) =>
       /\ last.dst \in objs
       /\ isRight(last.dst) /\ ~isLeft(last.dst)
       /\ storage[last.dst] = LiveObj("right", last.trace[1].v)

C2_Witness ==
  /\ last.op = "ctorRight" /\ last.ok
  /\ storage[last.dst].v # Empty
  /\ \E u \in objs : isLeft(u) /\ storage[u].v # Empty

\* C3: when N unions holding side S have been constructed and destroyed, the
\* destructor of S's type has run exactly N times and the other side's not
\* at all: at any moment the destructor count of each side is the number of
\* unions constructed on that side minus those of them still in existence.
C3_DtorCounts ==
  \A T \in Sides :
    dtorCount[T] = made[T] - Cardinality({u \in objs : side[u] = T})

C3_Witness ==
  /\ objs = {}
  /\ made = [T \in Sides |-> IF T = "left" THEN 2 ELSE 0]
  /\ dtorCount = [T \in Sides |-> IF T = "left" THEN 2 ELSE 0]
  /\ last.op = "dtor"

\* C4: copy-assigning a union to itself is safe: afterwards it has the same
\* tag and an equal value, no value was read after it was destroyed and no
\* value was destroyed twice.
C4_SelfCopyAssignSafe ==
  (last.op = "copyAssign" /\ last.dst = last.src /\ last.ok
     /\ Alive(last.pre.storage)) =>
    /\ side[last.dst] = last.pre.side
    /\ Alive(storage[last.dst])
    /\ storage[last.dst].v = last.pre.storage.v
    /\ ~ReadsDestroyed(last.trace)
    /\ ~DestroysDestroyed(last.trace)

\* C5: after a copy or move assignment a = b between two distinct unions,
\* whatever sides a and b held, a has the tag b had and the value b held;
\* a copy assignment leaves b's tag and value unchanged.
C5_AssignTakesSource ==
  (last.op \in AssignOps /\ last.ok /\ last.dst # last.src
     /\ Alive(last.pre.storage)) =>
    /\ side[last.dst] = last.pre.side
    /\ storage[last.dst] = LiveObj(last.pre.side, last.pre.storage.v)
    /\ last.op = "copyAssign" => Snap(last.src) = last.pre

C5_Witness ==
  /\ last.op = "copyAssign" /\ last.ok /\ last.dst # last.src
  /\ Len(last.trace) = 2
  /\ last.trace[1].e = "dtor" /\ last.trace[1].t = "left"
  /\ last.trace[1].st = "live"
  /\ last.pre.side = "right" /\ last.pre.storage.st = "live"
  /\ last.pre.storage.v # Empty
  /\ side[last.dst] = "right"
  /\ storage[last.dst] = storage[last.src]

\* C6: copy construction yields a union with the source's tag and an equal
\* value and leaves the source's tag and value unchanged.
C6_CopyCtorEqualsSource ==
  (last.op = "copyCtor" /\ last.ok /\ Alive(last.pre.storage)) =>
    /\ last.dst \in objs
    /\ side[last.dst] = last.pre.side
    /\ storage[last.dst] = LiveObj(last.pre.side, last.pre.storage.v)
    /\ Snap(last.src) = last.pre

C6_Witness ==
  /\ last.op = "copyCtor" /\ last.ok
  /\ last.pre.storage.st = "live"
  /\ last.pre.storage.v # Empty
  /\ storage[last.dst] = storage[last.src]
  /\ side[last.dst] = side[last.src]

\* C7: move construction and move assignment give the destination the
\* source's tag and the value it held and leave the source's tag alone: the
\* source stays tagged on the same side holding a moved-from value, which is
\* still an object alive in its storage, and the destructor of a union
\* holding a live value destroys that value exactly once, with its own
\* side's destructor.
C7_MoveKeepsSourceTag ==
  /\ (last.op \in MoveOps /\ last.dst # last.src
        /\ Alive(last.pre.storage)) =>
       /\ side[last.dst] = last.pre.side
       /\ storage[last.dst] = LiveObj(last.pre.side, last.pre.storage.v)
       /\ last.src \in objs
       /\ side[last.src] = last.pre.side
       /\ storage[last.src].t = last.pre.storage.t
       /\ storage[last.src].st = "live"
       /\ storage[last.src].v \in {last.pre.storage.v, Empty}
  /\ (last.op = "dtor" /\ Alive(last.pre.storage)) =>
       last.trace = << [e |-> "dtor", t |-> last.pre.side,
                        obj |-> last.pre.side, st |-> "live",
                        v |-> Empty] >>

C7_Witness ==
  /\ last.op = "moveAssign" /\ last.dst # last.src
  /\ Alive(last.pre.storage)
  /\ last.pre.storage.v # Empty
  /\ last.trace[1].e = "dtor" /\ last.trace[1].t # last.pre.side
  /\ storage[last.dst].v = last.pre.storage.v
  /\ storage[last.src] = LiveObj(last.pre.side, Empty)
  /\ side[last.src] = last.pre.side

\* C8: when the contained type's constructor fails during a construction or
\* an assignment, no union state has changed: after a failed copy assignment
\* the target still holds its old live value under its old tag.
C8_FailedCtorChangesNothing ==
  [][(last'.op \in ThrowingOps /\ ~last'.ok) =>
       /\ objs' = objs
       /\ side' = side
       /\ storage' = storage]_vars

\* C9: asLeft on a right-tagged union and asRight on a left-tagged one fail
\* the accessor's assertion; the accessor matching the tag never fails it
\* and returns the value in the union's storage; neither changes the union.
C9_AccessorAssertion ==
  /\ last.op = "asLeft" =>
       /\ last.ok <=> last.pre.side = "left"
       /\ last.pre.side = "left" => last.ret = {last.pre.storage.v}
  /\ last.op = "asRight" =>
       /\ last.ok <=> last.pre.side = "right"
       /\ last.pre.side = "right" => last.ret = {last.pre.storage.v}
  /\ last.op \in {"asLeft", "asRight"} => Snap(last.dst) = last.pre

C9_Witness ==
  /\ last.op = "asLeft"
  /\ side[last.dst] = "right"
  /\ Alive(storage[last.dst])
  /\ ~last.ok
  /\ last.trace = << [e |-> "assert", t |-> "left", obj |-> "right",
                      st |-> "live", v |-> Empty] >>

\* every resource handed to a union is owned by exactly one live object and
\* not yet deleted, or owned by none and deleted exactly once
ResourceInv ==
  \A r \in Vals \ {Empty} :
    LET holders == {u \in U : Alive(storage[u]) /\ storage[u].v = r}
    IN IF r \in created
         THEN \/ Cardinality(holders) = 1 /\ released[r] = 0
              \/ holders = {} /\ released[r] = 1
         ELSE holders = {} /\ released[r] = 0

\* C10: a move-only resource placed in a union and then moved along a chain
\* of move constructions and move assignments from union to union is deleted
\* exactly once by the time every union of the chain is destroyed: at any
\* moment it is owned by exactly one union and undeleted, or owned by none
\* and deleted exactly once.
C10_ResourceDeletedOnce ==
  /\ ResourceInv
  /\ objs = {} => \A r \in created : released[r] = 1

C10_Witness ==
  /\ objs = {}
  /\ created # {}
  /\ \A r \in created : released[r] = 1 /\ r \in moved
  /\ last.op = "dtor"
MapOps == {"map", "mapConst"}
FlatMapOps == {"flatMap", "flatMapConst"}
FoldOps == {"fold", "foldConst"}

\* C11: map(f) on a Right holding v returns a Right holding f(v), calling f
\* once on v; on a Left it returns a Left holding an equal value and does not
\* call f.
C11_MapAppliesOnRight ==
  last.op \in MapOps =>
    /\ last.dst \in objs
    /\ last.pre.side = "right" =>
         /\ Len(calls) = 1
         /\ calls[1].role = "fb"
         /\ calls[1].arg = last.pre.storage.v
         /\ side[last.dst] = "right"
         /\ storage[last.dst] = LiveObj("right", Apply(calls[1].f, calls[1].arg))
    /\ last.pre.side = "left" =>
         /\ calls = << >>
         /\ side[last.dst] = "left"
         /\ storage[last.dst] = LiveObj("left", last.pre.storage.v)

C11_Witness ==
  /\ last.op = "map"
  /\ last.pre.side = "right"
  /\ last.pre.storage.v = 2
  /\ calls = << Call("fb", "sq", 2) >>
  /\ storage[last.dst] = LiveObj("right", 4)

\* C12: flatMap(f) on a Right holding v returns exactly f(v), on whichever
\* side f answers; on a Left it does not call f and returns a Left holding an
\* equal value.
C12_FlatMapReturnsF ==
  last.op \in FlatMapOps =>
    /\ last.dst \in objs
    /\ last.pre.side = "right" =>
         /\ Len(calls) = 1
         /\ calls[1].role = "fb"
         /\ calls[1].arg = last.pre.storage.v
         /\ side[last.dst] = ApplyE(calls[1].f, calls[1].arg).side
         /\ storage[last.dst] =
              LiveObj(ApplyE(calls[1].f, calls[1].arg).side,
                      ApplyE(calls[1].f, calls[1].arg).v)
    /\ last.pre.side = "left" =>
         /\ calls = << >>
         /\ side[last.dst] = "left"
         /\ storage[last.dst] = LiveObj("left", last.pre.storage.v)

C12_Witness ==
  /\ last.op = "flatMapConst"
  /\ last.pre.side = "right"
  /\ last.pre.storage.v = 3
  /\ calls = << Call("fb", "evenE", 3) >>
  /\ side[last.dst] = "left"
  /\ storage[last.dst] = LiveObj("left", 3)

\* C13 as the specification states it: after map, flatMap or fold, on a const
\* or a non-const receiver, the receiver's tag and value are as before.
C13_ReceiverUnchanged ==
  last.op \in MapOps \cup FlatMapOps \cup FoldOps => Snap(last.src) = last.pre

\* C13: fold and the const overloads of map and flatMap leave the receiver's
\* tag and value as they were; the non-const overloads of map and flatMap
\* leave the tag and a Left value as they were and leave a Right value
\* moved from: still alive, holding its old value or the empty one.
C13_ReceiverKeepsTag ==
  /\ last.op \in {"mapConst", "flatMapConst"} \cup FoldOps =>
       Snap(last.src) = last.pre
  /\ last.op \in {"map", "flatMap"} =>
       /\ last.src \in objs
       /\ side[last.src] = last.pre.side
       /\ last.pre.side = "left" => Snap(last.src) = last.pre
       /\ last.pre.side = "right" =>
            /\ storage[last.src].t = "right"
            /\ storage[last.src].st = "live"
            /\ storage[last.src].v \in {last.pre.storage.v, Empty}

C13_Witness ==
  /\ last.op = "map"
  /\ last.pre.side = "right"
  /\ last.pre.storage.v = 2
  /\ side[last.src] = "right"
  /\ storage[last.src] = LiveObj("right", Empty)
  /\ storage[last.dst] = LiveObj("right", Apply("inc", 2))

\* C14: fold(fa, fb) on a Left holding a calls fa alone, once, on a, and
\* returns fa(a); on a Right holding b it calls fb alone, once, on b, and
\* returns fb(b).
C14_FoldPicksBranch ==
  last.op \in FoldOps =>
    /\ Len(calls) = 1
    /\ calls[1].arg = last.pre.storage.v
    /\ last.ret = {Apply(calls[1].f, last.pre.storage.v)}
    /\ last.pre.side = "left" => calls[1].role = "fa"
    /\ last.pre.side = "right" => calls[1].role = "fb"

C14_Witness ==
  /\ last.op = "foldConst"
  /\ last.pre.side = "left"
  /\ last.pre.storage.v = 3
  /\ calls = << Call("fa", "sq", 3) >>
  /\ last.ret = {4}

\* C15: a loop over a Right Either runs its body exactly once, on the Right
\* value; over a Left Either begin() equals end() and the body never runs;
\* no loop increments its iterator more than once, and after the increment
\* the iterator equals end().
C15_IterateZeroOrOne ==
  /\ iter.incs <= 1
  /\ Len(iter.seen) = iter.incs
  /\ iter.incs = 1 => ~(iter.b # iter.e)
  /\ (iter.on /\ isLeft(iter.u)) => (~(iter.b # iter.e) /\ iter.seen = << >>)
  /\ last.op = "forEnd" =>
       last.ret = {IF last.pre.side = "right"
                     THEN << last.pre.storage.v >> ELSE << >>}

C15_Witness ==
  /\ last.op = "forEnd"
  /\ last.pre.side = "right"
  /\ last.ret = {<< 3 >>}
  /\ ~iter.on
LazyComposeOps == {"lazyMap", "lazyFlatMap"}

\* how often the function stored in Lazy i ran during the last operation
RunsOf(i) ==
  Cardinality({k \in 1..Len(calls) :
                 calls[k].role = "run" /\ calls[k].of = i})

\* C16: constructing a Lazy from a function f does not call f; a get() on it
\* while it is unevaluated runs f exactly once, stores what f yields and
\* returns it; a get() on an evaluated Lazy runs nothing and returns the
\* stored value, and get, map, flatMap and Flatten leave every evaluated
\* Lazy evaluated (so no later get() runs f again).
C16_LazyEvaluatesOnce ==
  /\ last.op = "lazyFromFn" =>
       (calls = << >> /\ ~isEvaluated(lz[last.dst]))
  /\ (last.op = "lazyGet" /\ last.ok) =>
       LET before == last.pre.lz[last.dst]
       IN /\ isEvaluated(lz[last.dst])
          /\ last.ret = {lz[last.dst].val}
          /\ (~isEvaluated(before) /\ before.fn.k = "f") =>
               /\ calls = << LazyCall("run", "f", Empty, last.dst) >>
               /\ last.ret = {before.fn.c}
          /\ isEvaluated(before) =>
               /\ calls = << >>
               /\ last.ret = {before.val}
               /\ lz = last.pre.lz
  /\ last.op \in {"lazyGet", "flatten"} \cup LazyComposeOps =>
       \A i \in LZ : isEvaluated(last.pre.lz[i]) =>
         (isEvaluated(lz[i]) /\ RunsOf(i) = 0)

C16_Witness ==
  /\ last.op = "lazyGet" /\ last.ok
  /\ ~isEvaluated(last.pre.lz[last.dst])
  /\ last.pre.lz[last.dst].fn.k = "f"
  /\ calls = << LazyCall("run", "f", Empty, last.dst) >>
  /\ last.ret = {1}
  /\ isEvaluated(lz[last.dst])

\* C17: Flatten runs none of the computations and captures a copy of its
\* input; the first get() on the result runs, once each, those of the outer
\* and the inner computation the captured copy had not run yet (both, for an
\* unevaluated input), a later get() on the result runs neither, and
\* evaluating the result leaves the input as it was.
C17_FlattenDefers ==
  /\ last.op = "flatten" =>
       /\ calls = << >>
       /\ ll = last.pre.ll
       /\ ~isEvaluated(lz[last.dst])
       /\ lz[last.dst].fn.k = "flatten"
       /\ lz[last.dst].fn.nested = last.pre.ll
  /\ (last.op = "lazyGet" /\ last.ok) =>
       LET before == last.pre.lz[last.dst]
           n == before.fn.nested
       IN /\ ll = last.pre.ll
          /\ (~isEvaluated(before) /\ before.fn.k = "flatten") =>
               /\ isEvaluated(lz[last.dst])
               /\ last.ret = {n.c}
               /\ calls =
                    << LazyCall("run", "flatten", Empty, last.dst) >>
                    \o (IF n.side = "left"
                          THEN << LazyCall("run", "outer", Empty, 0) >>
                          ELSE << >>)
                    \o (IF n.inner.side = "left"
                          THEN << LazyCall("run", "inner", Empty, 0) >>
                          ELSE << >>)
          /\ isEvaluated(before) => calls = << >>

C17_Witness ==
  /\ last.op = "lazyGet" /\ last.ok
  /\ last.pre.lz[last.dst].fn.k = "flatten"
  /\ last.pre.lz[last.dst].fn.nested.side = "left"
  /\ calls = << LazyCall("run", "flatten", Empty, last.dst),
                LazyCall("run", "outer", Empty, 0),
                LazyCall("run", "inner", Empty, 0) >>
  /\ last.ret = {1}
  /\ ll.in /\ ll.side = "left" /\ ll.inner.side = "left"

\* C18: map(g) and flatMap(g) run nothing and leave the receiver as it was;
\* the Lazy they return is unevaluated.  The first get() on it runs the
\* receiver's function once if the receiver was unevaluated and not at all
\* otherwise, calls g once on the receiver's value and yields g of it;
\* afterwards the receiver and the returned Lazy are both evaluated.
C18_LazyMapDefers ==
  /\ last.op \in LazyComposeOps =>
       /\ calls = << >>
       /\ ~isEvaluated(lz[last.dst])
       /\ \A i \in LZ \ {last.dst} : lz[i] = last.pre.lz[i]
  /\ (last.op = "lazyGet" /\ last.ok
        /\ ~isEvaluated(last.pre.lz[last.dst])
        /\ last.pre.lz[last.dst].fn.k \in {"map", "flatMap"}) =>
       LET fn == last.pre.lz[last.dst].fn
           before == last.pre.lz[fn.this]
           gs == {k \in 1..Len(calls) :
                    calls[k].role = "g" /\ calls[k].of = last.dst}
       IN /\ isEvaluated(lz[last.dst])
          /\ isEvaluated(lz[fn.this])
          /\ RunsOf(fn.this) = IF isEvaluated(before) THEN 0 ELSE 1
          /\ RunsOf(last.dst) = 1
          /\ Cardinality(gs) = 1
          /\ \A k \in gs :
               /\ calls[k].f = fn.g
               /\ last.ret = {Apply(fn.g, calls[k].arg)}
               /\ isEvaluated(before) => calls[k].arg = before.val
               /\ (~isEvaluated(before) /\ before.fn.k = "f") =>
                    calls[k].arg = before.fn.c
               /\ ~fn.steals => lz[fn.this].val = calls[k].arg

C18_Witness ==
  /\ last.op = "lazyGet" /\ last.ok
  /\ last.pre.lz[2].fn.k = "map"
  /\ last.pre.lz[2].fn.g = "inc"
  /\ last.dst = 2
  /\ ~isEvaluated(last.pre.lz[1])
  /\ last.pre.lz[1].fn.k = "f"
  /\ last.pre.lz[1].fn.c = 1
  /\ last.ret = {2}
  /\ isEvaluated(lz[1]) /\ isEvaluated(lz[2])
\* C19: on Just(a), map(f) calls f once on a and returns Just(f(a)) and
\* flatMap(f) calls f once on a and returns f(a); on Nothing both return
\* Nothing without calling f.
C19_MaybeMapFlatMap ==
  /\ last.op = "maybeMap" =>
       IF isJust(last.pre)
         THEN /\ calls = << Call("f", calls[1].f, last.pre.v) >>
              /\ mb[last.dst] = JustOf(Apply(calls[1].f, last.pre.v))
         ELSE calls = << >> /\ mb[last.dst].in /\ isNothing(mb[last.dst])
  /\ last.op = "maybeFlatMap" =>
       IF isJust(last.pre)
         THEN /\ calls = << Call("f", calls[1].f, last.pre.v) >>
              /\ mb[last.dst] = ApplyM(calls[1].f, last.pre.v)
         ELSE calls = << >> /\ mb[last.dst].in /\ isNothing(mb[last.dst])

C19_Witness ==
  /\ last.op = "maybeFlatMap"
  /\ isNothing(last.pre)
  /\ last.pre.in
  /\ calls = << >>
  /\ mb[last.dst].in
  /\ isNothing(mb[last.dst])
  /\ last.dst # last.src

\* C20: after a Maybe holding a value is move-constructed or move-assigned
\* into another Maybe, the destination isJust() and the source isNothing().
C20_MoveClearsSource ==
  (last.op \in {"maybeMoveCtor", "maybeMoveAssign"} /\ isJust(last.pre)) =>
    /\ isJust(mb[last.dst])
    /\ isNothing(mb[last.src])

\* C21: sequence over a container of Maybe returns Just of a list holding
\* all the contained values (each element once, the last element of the
\* container at the front) when every element is Just, and Nothing when at
\* least one element is Nothing, wherever it stands.
C21_SequenceAllOrNothing ==
  last.op = "sequence" =>
    /\ seqRet.in
    /\ IF \A i \in 1..Len(cma) : isJust(cma[i])
         THEN /\ isJust(seqRet)
              /\ Len(seqRet.v) = Len(cma)
              /\ \A i \in 1..Len(cma) :
                   seqRet.v[Len(cma) + 1 - i] = cma[i].v
         ELSE isNothing(seqRet)

C21_Witness ==
  /\ last.op = "sequence"
  /\ Len(cma) = MaxCont
  /\ isJust(cma[1])
  /\ isNothing(cma[2])
  /\ isJust(cma[MaxCont])
  /\ isNothing(seqRet)

\* C22: rightJoin returns Right c for a receiver Right(Right c), Left a for
\* a receiver Right(Left a), and Left a for a receiver Left a.
C22_RightJoinFlattens ==
  last.op = "rightJoin" =>
    /\ joined.in
    /\ \A n \in Ints :
         /\ Value(eith) = EitherOf("right", Held(EitherOf("right", Atom(n))))
              => Value(joined) = EitherOf("right", Atom(n))
         /\ Value(eith) = EitherOf("right", Held(EitherOf("left", Atom(n))))
              => Value(joined) = EitherOf("left", Atom(n))
         /\ Value(eith) = EitherOf("left", Atom(n))
              => Value(joined) = EitherOf("left", Atom(n))

C22_Witness ==
  /\ last.op = "rightJoin"
  /\ Value(eith) = EitherOf("right", Held(EitherOf("left", Atom(3))))
  /\ Value(joined) = EitherOf("left", Atom(3))

\* C23: leftJoin returns Left c for a receiver Left(Left c), Right b for a
\* receiver Left(Right b), and Right b for a receiver Right b; mirror swaps
\* the side and keeps the stored value.
C23_LeftJoinFlattens ==
  /\ last.op = "leftJoin" =>
       /\ joined.in
       /\ \A n \in Ints :
            /\ Value(eith) = EitherOf("left", Held(EitherOf("left", Atom(n))))
                 => Value(joined) = EitherOf("left", Atom(n))
            /\ Value(eith) = EitherOf("left", Held(EitherOf("right", Atom(n))))
                 => Value(joined) = EitherOf("right", Atom(n))
            /\ Value(eith) = EitherOf("right", Atom(n))
                 => Value(joined) = EitherOf("right", Atom(n))
  /\ last.op = "mirror" =>
       /\ joined.in
       /\ joined.side # eith.side
       /\ joined.side \in Sides
       /\ joined.v = eith.v

C23_Witness ==
  /\ last.op = "leftJoin"
  /\ Value(eith) = EitherOf("left", Held(EitherOf("right", Atom(3))))
  /\ Value(joined) = EitherOf("right", Atom(3))

\* the positions of the events of kind e in a trace
EventsAt(tr, e) == {i \in 1..Len(tr) : tr[i].e = e}

\* C24: when a copy or move assignment finds a live value in its target, the
\* assignment destroys that value exactly once, with the destructor of the
\* type of that value (the side the target held), and it does so first:
\* whatever it constructs, on the same side or on the other, comes later.
C24_DestroyThenConstruct ==
  (/\ last.op \in AssignOps
   /\ \E i \in EventsAt(last.trace, "dtor") : last.trace[i].st = "live") =>
    /\ EventsAt(last.trace, "dtor") = {1}
    /\ last.trace[1].t = last.trace[1].obj
    /\ \A i \in EventsAt(last.trace, "ctor") \cup
                 EventsAt(last.trace, "throw") : i > 1

C24_Witness ==
  /\ last.op = "moveAssign"
  /\ last.dst # last.src
  /\ Len(last.trace) = 2
  /\ last.trace[1].e = "dtor"
  /\ last.trace[1].st = "live"
  /\ last.trace[1].t = "left"
  /\ last.trace[2].e = "ctor"
  /\ last.trace[2].t = "right"
  /\ side[last.dst] = "right"

\* C25: when the construction of the new value fails in a copy assignment,
\* the target has run the destructor of its old value first, holds no live
\* value, still exists, and its tag names the source's side.
C25_FailedCopyAssignHoldsNothing ==
  (last.op = "copyAssign" /\ ~last.ok) =>
    /\ last.dst \in objs
    /\ last.trace[1].e = "dtor"
    /\ last.trace[Len(last.trace)].e = "throw"
    /\ EventsAt(last.trace, "ctor") = {}
    /\ ~Alive(storage[last.dst])
    /\ side[last.dst] = last.pre.side

C25_Witness ==
  /\ last.op = "copyAssign"
  /\ ~last.ok
  /\ last.dst # last.src
  /\ last.trace[1].st = "live"
  /\ last.trace[1].t = "left"
  /\ side[last.dst] = "right"
  /\ storage[last.dst].st = "dead"
  /\ Alive(storage[last.src])

\* the operations a caller runs to reach into a union directly
CallerAccess == {"asLeft", "asRight"}

\* C26: no operation of the union or of Either calls asLeft() on a
\* right-tagged union or asRight() on a left-tagged one: the trace of an
\* operation never holds a failed accessor assertion.
C26_NoAccessorAssertionFires ==
  last.op \notin CallerAccess => EventsAt(last.trace, "assert") = {}

C26_Witness ==
  /\ last.op = "recover"
  /\ last.pre.side = "left"
  /\ ~Alive(last.pre.storage)
  /\ Len(calls) = 1
  /\ EventsAt(last.trace, "assert") = {}

\* the operations that evaluate or compose Lazy objects without assigning
LazyReadOps == {"lazyGet", "lazyFor"} \cup LazyComposeOps

\* Lazy j's value was handed, during the last operation, to the g of a Lazy
\* composed from it through a non-const overload with a g that takes it
HandedOver(j) ==
  \E k \in LZ :
    /\ last.pre.lz[k].in
    /\ ~isEvaluated(last.pre.lz[k])
    /\ isEvaluated(lz[k])
    /\ last.pre.lz[k].fn.k \in {"map", "flatMap"}
    /\ last.pre.lz[k].fn.this = j
    /\ last.pre.lz[k].fn.steals

\* what get, iteration, map and flatMap leave in Lazy j, given
\* whether evaluating a composed Lazy may alter the value of its receiver
StoredValueKept(j, mayHandOver) ==
  LET before == last.pre.lz[j]
  IN IF mayHandOver /\ HandedOver(j)
       THEN lz[j].val = Empty
       ELSE /\ isEvaluated(before) => lz[j].val = before.val
            /\ (before.in /\ ~isEvaluated(before) /\ isEvaluated(lz[j])
                  /\ before.fn.k = "f") => lz[j].val = before.fn.c

\* C27 as stated: every get() on a Lazy returns the value its single
\* evaluation produced, and that stored value is the same after every get,
\* iteration, map and flatMap, also once the Lazy objects composed from it
\* have been evaluated.
C27_StoredValueStable ==
  last.op \in LazyReadOps =>
    /\ \A j \in LZ : StoredValueKept(j, FALSE)
    /\ (last.op = "lazyGet" /\ last.ok) => last.ret = {lz[last.dst].val}

\* C27, amended: a get() returns the stored value, and get, iteration, map
\* and flatMap leave the stored value of every Lazy as its evaluation
\* produced it, except that evaluating a Lazy composed through
\* the non-const map or flatMap hands the receiver's value to g as an
\* rvalue: a g that takes it leaves the receiver holding a moved-from value.
C27_StoredValueStableUnlessHandedOver ==
  last.op \in LazyReadOps =>
    /\ \A j \in LZ : StoredValueKept(j, TRUE)
    /\ (last.op = "lazyGet" /\ last.ok) => last.ret = {lz[last.dst].val}

C27_Witness ==
  /\ last.op = "lazyGet" /\ last.ok
  /\ last.dst # 1
  /\ last.pre.lz[last.dst].fn.k = "map"
  /\ last.pre.lz[last.dst].fn.this = 1
  /\ ~last.pre.lz[last.dst].fn.steals
  /\ isEvaluated(last.pre.lz[1]) /\ last.pre.lz[1].val = 1
  /\ lz[1].val = 1
  /\ isEvaluated(lz[last.dst])
\* C28: over constructions, copies, moves, assignments and destructions of
\* unions, every destructor call runs on a live value of the type it is
\* called for (no double destruction, no destruction of the inactive side),
\* and once every union is destroyed no storage holds a live value (no leak).
C28_EachValueDestroyedOnce ==
  /\ \A i \in EventsAt(last.trace, "dtor") :
       /\ last.trace[i].st = "live"
       /\ last.trace[i].t = last.trace[i].obj
  /\ objs = {} => \A u \in U : storage[u].st # "live"
\* the operations on a Lazy<int> object
LazyOps ==
  LazyReadOps \cup {"lazyFromFn", "lazyFromValue", "lazyAssignValue",
                    "lazyCopyAssign"}

\* the Lazy objects the last operation was called on or with
Operands == {last.dst, last.src}

\* C29 as stated: a Lazy that is evaluated stays evaluated under get,
\* assignment of a value, copy assignment from another Lazy, map, flatMap
\* and iteration.
C29_EvaluatedStaysEvaluated ==
  last.op \in LazyOps =>
    \A j \in Operands :
      (last.pre.lz[j].in /\ isEvaluated(last.pre.lz[j])) =>
        isEvaluated(lz[j])

\* C29, amended: an evaluated Lazy stays evaluated under get, assignment of
\* a value, map, flatMap and iteration; a copy assignment that completes
\* makes the target a copy of the source, so afterwards the target is
\* evaluated exactly when the source is (an evaluated target assigned from
\* an unevaluated source is unevaluated again).
C29_EvaluatedStaysUnlessCopied ==
  /\ (last.op \in LazyOps /\ last.op # "lazyCopyAssign") =>
       \A j \in Operands :
         (last.pre.lz[j].in /\ isEvaluated(last.pre.lz[j])) =>
           isEvaluated(lz[j])
  /\ last.op = "lazyCopyAssign" =>
       /\ lz[last.dst] = last.pre.lz[last.src]
       /\ lz[last.src] = last.pre.lz[last.src]
       /\ isEvaluated(lz[last.dst]) = isEvaluated(last.pre.lz[last.src])

C29_Witness ==
  /\ last.op = "lazyCopyAssign"
  /\ isEvaluated(last.pre.lz[last.dst])
  /\ last.pre.lz[last.dst].val = 0
  /\ isEvaluated(last.pre.lz[last.src])
  /\ last.pre.lz[last.src].val = 1
  /\ isEvaluated(lz[last.dst])
  /\ lz[last.dst].val = 1
\* C30: when the function run by a get() fails, no Lazy has changed: the
\* Lazy the get() was called on is still unevaluated and holds the same
\* function, and a get() on it in this state runs again every function the
\* failed get() ran, its own first.
C30_FailedGetLeavesUnevaluated ==
  (last.op = "lazyGet" /\ ~last.ok) =>
    LET again == LazyGet(lz, last.dst, NumLazy, FALSE)
    IN /\ ~isEvaluated(last.pre.lz[last.dst])
       /\ lz = last.pre.lz
       /\ ~isEvaluated(lz[last.dst])
       /\ lz[last.dst].fn = last.pre.lz[last.dst].fn
       /\ calls # << >>
       /\ calls[1] = LazyCall("run", lz[last.dst].fn.k, Empty, last.dst)
       /\ again.ok
       /\ Len(again.calls) >= Len(calls)
       /\ SubSeq(again.calls, 1, Len(calls)) = calls
       /\ isEvaluated(again.L[last.dst])

C30_Witness ==
  /\ last.op = "lazyGet" /\ ~last.ok
  /\ lz[last.dst].in
  /\ lz[last.dst].fn.k = "f"
  /\ lz[last.dst].fn.c = 1
  /\ ~isEvaluated(lz[last.dst])
  /\ calls = << LazyCall("run", "f", Empty, last.dst) >>
  /\ LazyGet(lz, last.dst, NumLazy, FALSE).val = 1
====
